---- MODULE Spec2Model ----
(***************************************************************************)
(* clonk-x-factory: build-request pipeline.                                *)
(*                                                                         *)
(* Three state machines share this module:                                 *)
(*   SpecPoll    the X polling loop of src/index.ts (pollMentions) with    *)
(*               its registry processingTweets;                            *)
(*   SpecHandle  the shared entry point handleMention with its registry    *)
(*               processingMessages;                                       *)
(*   Spec        one run of processMentionToApp (src/pipeline.ts) with the *)
(*               generation loop runClaudeQuery (src/services/claude.ts).  *)
(* Smaller specifications look at one part each: SpecBudget (the turn      *)
(* budget), SpecMerge (staging and merge), SpecSink (a throwing progress   *)
(* sink), SpecDirs (working areas), SpecAdapters (the channel adapters),   *)
(* SpecTelegram (handleBuildRequest) and SpecWait (waitForDeployment).     *)
(***************************************************************************)
EXTENDS Naturals, Integers, Sequences, FiniteSets, TLC

VARIABLES
    \* --- X polling loop (index.ts) ---
    nPosted,            \* mentions that exist on X are the ids 1..nPosted
    buildRequests,      \* ids that pass the loop's static filters
    lastSeenTweetId,    \* 0 stands for ''
    processingTweets,   \* Set<string> of tweet ids
    polls,              \* one record per invocation of pollMentions
    tweetJobs,          \* pipelines started by the loop, in start order
    \* --- handleMention ---
    processingMessages, \* Set<string> of keys
    deliveries,         \* log of the calls of handleMention
    jobs,               \* pipelines started by handleMention, in start order
    \* --- one run of processMentionToApp (pipeline.ts) ---
    pc,                 \* the await the pipeline is suspended at
    backend,            \* input.backend: "convex" or "none" (undefined)
    template,           \* input.template: "threejs" or "none" (undefined)
    generatedApp,       \* "none" (undefined) or the generator that produced it
    stageLog,           \* start and outcome of every stage, in order
    failure,            \* the stage whose error reached the outer catch
    attempts,           \* one record per finished call of runClaudeQuery
    gh,                 \* createGitHubRepo: position of the promise
    ghFile,             \* index of the file being uploaded
    rw,                 \* waitForDeployment: position of the promise
    rwElapsed,          \* Date.now() - start, in ms
    screenshotBuffer,   \* "undefined" or "png"
    clonkPageUrl,       \* "null" or "url"
    replies,            \* every call of input.reply, in order
    \* --- runClaudeQuery (services/claude.ts) ---
    generating,         \* generator whose query is running, or "none"
    turnCount,
    consecutiveErrors,
    consecutiveRefusals,
    result,             \* "null", "structured" or "empty" (no structured_output)
    lastError,          \* "null" or "error"
    aborted,            \* controller.signal.aborted
    msgs,               \* messages the loop has consumed from query()
    \* --- one generation seen from its files (services/claude.ts) ---
    mpc,                \* "off", "stage", "agent", "merge"
    templateName,       \* TemplateName
    convexUrl,          \* convexDeploymentUrl, "none" for undefined
    buildDir,           \* the working area: path -> content, "absent" if no file
    rawApp,             \* <<>> or <<what runClaudeQuery returned>>
    mergedApp,          \* per call of mergeWithTemplate: <<>> or <<its result>>
    \* --- the working areas of concurrent generations (services/claude.ts) ---
    builds,             \* one record per call of a generator
    tmp,                \* /tmp/app-build-<id>: the build that staged it, 0 if absent
    \* --- the channel adapters (channels/x.ts, telegram.ts, web.ts) ---
    reqs,               \* one record per request an adapter has received
    jobStore,           \* the payloads persistJob has posted, in order
    \* --- handleBuildRequest (channels/telegram.ts) ---
    tg,                 \* one record per Telegram update that asks for a build
    \* --- one call of waitForDeployment (services/vercel.ts) ---
    wait                \* position of the loop, Date.now() - start, requests made

pollVars   == <<nPosted, buildRequests, lastSeenTweetId, processingTweets, polls, tweetJobs>>
handleVars == <<processingMessages, deliveries, jobs>>
inputVars  == <<backend, template>>
ghVars     == <<gh, ghFile>>
rwVars     == <<rw, rwElapsed>>
outVars    == <<screenshotBuffer, clonkPageUrl>>
engVars    == <<generating, turnCount, consecutiveErrors, consecutiveRefusals, result, lastError, aborted, msgs>>
mergeVars  == <<mpc, templateName, convexUrl, buildDir, rawApp, mergedApp>>
runVars    == <<pc, inputVars, generatedApp, stageLog, failure, attempts, ghVars, rwVars, outVars, replies, engVars>>
dirVars    == <<builds, tmp>>
adaptVars  == <<reqs, jobStore>>
tgVars     == <<tg>>
waitVars   == <<wait>>
pipeVars   == <<runVars, mergeVars, dirVars, adaptVars, tgVars, waitVars>>
trackVars  == <<pollVars, handleVars, mergeVars, dirVars, adaptVars, tgVars, waitVars>>
vars       == <<pollVars, handleVars, pipeVars>>

(***************************************************************************)
(* Bounds                                                                  *)
(***************************************************************************)
MaxTweets     == 1
MaxPolls      == 2
MaxTweetJobs  == 2
MaxDeliveries == 3

Tweets == 1..MaxTweets
Polls  == 1..MaxPolls

(***************************************************************************)
(* X polling loop: src/index.ts, pollMentions                              *)
(***************************************************************************)
RECURSIVE Newest(_)
\* The mentions endpoint returns the matching tweets most recent first.
Newest(S) ==
    IF S = {} THEN <<>>
    ELSE LET m == CHOOSE t \in S : \A u \in S : u <= t
         IN  <<m>> \o Newest(S \ {m})

\* GET /2/users/:id/mentions with since_id: the tweets newer than since_id.
fetchMentions(since) == Newest({t \in 1..nPosted : t > since})

IdlePoll == [pc |-> "idle", since |-> 0, tweets |-> <<>>, i |-> 0]
\* pollMentions has returned: its locals are gone.
DonePoll == [pc |-> "done", since |-> 0, tweets |-> <<>>, i |-> 0]

PollInit ==
    /\ nPosted = 0
    /\ buildRequests = {}
    /\ lastSeenTweetId = 0
    /\ processingTweets = {}
    /\ polls = [p \in Polls |-> IdlePoll]
    /\ tweetJobs = <<>>

\* A user mentions the bot; ids grow with time.
PostTweet ==
    /\ nPosted < MaxTweets
    /\ nPosted' = nPosted + 1
    /\ \E ok \in BOOLEAN :
         buildRequests' = IF ok THEN buildRequests \cup {nPosted + 1} ELSE buildRequests
    /\ UNCHANGED <<lastSeenTweetId, processingTweets, polls, tweetJobs, handleVars, pipeVars>>

\* setInterval fires pollMentions for the p-th time; params.since_id is read
\* before the request.
PollStart(p) ==
    /\ polls[p].pc = "idle"
    /\ p > 1 => polls[p - 1].pc # "idle"
    /\ polls' = [polls EXCEPT ![p] = [IdlePoll EXCEPT !.pc = "fetching", !.since = lastSeenTweetId]]
    /\ UNCHANGED <<nPosted, buildRequests, lastSeenTweetId, processingTweets, tweetJobs, handleVars, pipeVars>>

\* The response of axios.get arrives.
PollFetched(p) ==
    /\ polls[p].pc = "fetching"
    /\ LET tweets == fetchMentions(polls[p].since) IN
        IF Len(tweets) = 0
        THEN /\ polls' = [polls EXCEPT ![p] = DonePoll]
             /\ UNCHANGED lastSeenTweetId
        ELSE /\ lastSeenTweetId' = tweets[1]
             /\ polls' = [polls EXCEPT ![p].pc = "loop", ![p].tweets = tweets, ![p].i = 1]
    /\ UNCHANGED <<nPosted, buildRequests, processingTweets, tweetJobs, handleVars, pipeVars>>

\* axios.get rejects (429 or any other error): the outer catch logs and returns.
PollFetchFailed(p) ==
    /\ polls[p].pc = "fetching"
    /\ polls' = [polls EXCEPT ![p] = DonePoll]
    /\ UNCHANGED <<nPosted, buildRequests, lastSeenTweetId, processingTweets, tweetJobs, handleVars, pipeVars>>

\* One iteration of `for (const tweet of tweets)` up to the await of classifyTweet.
PollLoop(p) ==
    /\ polls[p].pc = "loop"
    /\ IF polls[p].i > Len(polls[p].tweets)
       THEN polls' = [polls EXCEPT ![p] = DonePoll]
       ELSE LET tweet == polls[p].tweets[polls[p].i] IN
            IF tweet \in processingTweets \/ tweet \notin buildRequests
            THEN polls' = [polls EXCEPT ![p].i = @ + 1]
            ELSE polls' = [polls EXCEPT ![p].pc = "classifying"]
    /\ UNCHANGED <<nPosted, buildRequests, lastSeenTweetId, processingTweets, tweetJobs, handleVars, pipeVars>>

\* classifyTweet resolves; on true the tweet is marked and the pipeline started.
PollClassified(p) ==
    /\ polls[p].pc = "classifying"
    /\ LET tweet == polls[p].tweets[polls[p].i] IN
       \E isAppRequest \in BOOLEAN :
         IF isAppRequest
         THEN /\ Len(tweetJobs) < MaxTweetJobs
              /\ processingTweets' = processingTweets \cup {tweet}
              /\ tweetJobs' = Append(tweetJobs, [id |-> tweet, st |-> "running", outcome |-> "none"])
         ELSE UNCHANGED <<processingTweets, tweetJobs>>
    /\ polls' = [polls EXCEPT ![p].pc = "loop", ![p].i = @ + 1]
    /\ UNCHANGED <<nPosted, buildRequests, lastSeenTweetId, handleVars, pipeVars>>

\* processTweetToApp settles: it resolves, or rejects with the sanitized error.
TweetPipelineSettles(j) ==
    /\ j \in DOMAIN tweetJobs
    /\ tweetJobs[j].st = "running"
    /\ \E outcome \in {"resolved", "rejected"} :
         tweetJobs' = [tweetJobs EXCEPT ![j].st = "settled", ![j].outcome = outcome]
    /\ UNCHANGED <<nPosted, buildRequests, lastSeenTweetId, processingTweets, polls, handleVars, pipeVars>>

\* Variant: the delete is chained with .then, so it runs only after success.
TweetFinally_ThenOnly(j) ==
    /\ j \in DOMAIN tweetJobs
    /\ tweetJobs[j].st = "settled"
    /\ tweetJobs[j].outcome = "resolved"
    /\ processingTweets' = processingTweets \ {tweetJobs[j].id}
    /\ tweetJobs' = [tweetJobs EXCEPT ![j].st = "released"]
    /\ UNCHANGED <<nPosted, buildRequests, lastSeenTweetId, polls, handleVars, pipeVars>>

\* .catch(log).finally(() => processingTweets.delete(tweet.id))
TweetFinally(j) ==
    /\ j \in DOMAIN tweetJobs
    /\ tweetJobs[j].st = "settled"
    /\ processingTweets' = processingTweets \ {tweetJobs[j].id}
    /\ tweetJobs' = [tweetJobs EXCEPT ![j].st = "released"]
    /\ UNCHANGED <<nPosted, buildRequests, lastSeenTweetId, polls, handleVars, pipeVars>>

(***************************************************************************)
(* handleMention: plans/add-telegram.md                                    *)
(***************************************************************************)
Sources    == {"x", "telegram"}
MessageIds == {"1", "2"}

\* const key = `${input.source}:${input.messageId}`
KeyOf(source, messageId) == source \o ":" \o messageId

HandleInit ==
    /\ processingMessages = {}
    /\ deliveries = <<>>
    /\ jobs = <<>>

\* Variant: the membership test is dropped, every delivery starts a pipeline.
handleMention_NoCheck(source, messageId) ==
    /\ Len(deliveries) < MaxDeliveries
    /\ LET key == KeyOf(source, messageId) IN
         /\ deliveries' = Append(deliveries, [key |-> key, accepted |-> TRUE])
         /\ processingMessages' = processingMessages \cup {key}
         /\ jobs' = Append(jobs, [key |-> key, st |-> "running", outcome |-> "none", by |-> Len(deliveries) + 1])
    /\ UNCHANGED <<pollVars, pipeVars>>

\* A channel adapter calls onMention(input).
handleMention(source, messageId) ==
    /\ Len(deliveries) < MaxDeliveries
    /\ LET key == KeyOf(source, messageId) IN
       IF key \in processingMessages
       THEN /\ deliveries' = Append(deliveries, [key |-> key, accepted |-> FALSE])
            /\ UNCHANGED <<processingMessages, jobs>>
       ELSE /\ deliveries' = Append(deliveries, [key |-> key, accepted |-> TRUE])
            /\ processingMessages' = processingMessages \cup {key}
            /\ jobs' = Append(jobs, [key |-> key, st |-> "running", outcome |-> "none", by |-> Len(deliveries) + 1])
    /\ UNCHANGED <<pollVars, pipeVars>>

\* processMentionToApp settles.
PipelineSettles(j) ==
    /\ j \in DOMAIN jobs
    /\ jobs[j].st = "running"
    /\ \E outcome \in {"resolved", "rejected"} :
         jobs' = [jobs EXCEPT ![j].st = "settled", ![j].outcome = outcome]
    /\ UNCHANGED <<processingMessages, deliveries, pollVars, pipeVars>>

\* .catch(log).finally(() => processingMessages.delete(key))
Finally(j) ==
    /\ j \in DOMAIN jobs
    /\ jobs[j].st = "settled"
    /\ processingMessages' = processingMessages \ {jobs[j].key}
    /\ jobs' = [jobs EXCEPT ![j].st = "released"]
    /\ UNCHANGED <<deliveries, pollVars, pipeVars>>

(***************************************************************************)
(* runClaudeQuery: src/services/claude.ts                                  *)
(***************************************************************************)
MAX_CONSECUTIVE_ERRORS   == 5
MAX_CONSECUTIVE_REFUSALS == 3

\* Bound on the number of messages one query() yields in Spec.
MaxMsgs == 5

\* options.maxTurns: runClaudeQuery(..., maxTurns = 20); generateConvexApp passes 30.
maxTurns(variant) == IF variant = "convex" THEN 30 ELSE 20

\* An SDK message as far as the loop looks at it.  matches stands for
\* REFUSAL_PATTERNS.some(p => p.test(fullText)).
AssistantMsgs ==
    {[type |-> "assistant", hasToolUse |-> t, matches |-> m, subtype |-> "none", structured |-> FALSE] :
        t \in BOOLEAN, m \in BOOLEAN}
ResultMsgs ==
    {[type |-> "result", hasToolUse |-> FALSE, matches |-> FALSE, subtype |-> "success", structured |-> o] :
        o \in BOOLEAN}
    \cup {[type |-> "result", hasToolUse |-> FALSE, matches |-> FALSE, subtype |-> "error", structured |-> FALSE]}

\* const isRefusal = !hasToolUse && REFUSAL_PATTERNS.some(p => p.test(fullText))
isRefusal(msg) == ~msg.hasToolUse /\ msg.matches

Ev(stage, ev) == [stage |-> stage, ev |-> ev]

EngineIdle ==
    /\ generating = "none"
    /\ turnCount = 0
    /\ consecutiveErrors = 0
    /\ consecutiveRefusals = 0
    /\ result = "null"
    /\ lastError = "null"
    /\ aborted = FALSE
    /\ msgs = <<>>

\* The locals of runClaudeQuery go out of scope.
EngineReset ==
    /\ generating' = "none"
    /\ turnCount' = 0
    /\ consecutiveErrors' = 0
    /\ consecutiveRefusals' = 0
    /\ result' = "null"
    /\ lastError' = "null"
    /\ aborted' = FALSE
    /\ msgs' = <<>>

RECURSIVE RefusalRun(_)
\* Length of the run of refusal turns that ends the assistant turns of h.
RefusalRun(h) ==
    IF h = <<>> THEN 0
    ELSE LET last == h[Len(h)]
             rest == SubSeq(h, 1, Len(h) - 1)
         IN  IF last.type # "assistant" THEN RefusalRun(rest)
             ELSE IF isRefusal(last) THEN 1 + RefusalRun(rest)
             ELSE 0

RECURSIVE ErrorRun(_)
\* Number of error results since the last assistant turn of h.
ErrorRun(h) ==
    IF h = <<>> THEN 0
    ELSE LET last == h[Len(h)]
             rest == SubSeq(h, 1, Len(h) - 1)
         IN  IF last.type = "assistant" THEN 0
             ELSE IF last.subtype = "error" THEN 1 + ErrorRun(rest)
             ELSE ErrorRun(rest)

\* generateApp / generateConvexApp / generateThreeJsApp call runClaudeQuery.
StartQuery(variant, events) ==
    /\ pc' = "query"
    /\ generating' = variant
    /\ turnCount' = 0
    /\ consecutiveErrors' = 0
    /\ consecutiveRefusals' = 0
    /\ result' = "null"
    /\ lastError' = "null"
    /\ aborted' = FALSE
    /\ msgs' = <<>>
    /\ stageLog' = stageLog \o events \o <<Ev("Generation", "start")>>

\* Variant in which the pipeline goes on to deploy whatever runClaudeQuery did.
ExitQuery_NeverThrows(outcome, h) ==
    /\ attempts' = Append(attempts,
                     [variant |-> generating, outcome |-> outcome,
                      refusals |-> RefusalRun(h) >= MAX_CONSECUTIVE_REFUSALS,
                      errors |-> ErrorRun(h) >= MAX_CONSECUTIVE_ERRORS,
                      exhausted |-> turnCount >= maxTurns(generating),
                      result |-> result,
                      aborted |-> aborted])
    /\ EngineReset
    /\ generatedApp' = generating
    /\ failure' = failure
    /\ IF generating = "convex"
       THEN /\ pc' = "configureConvexAuthKeys"
            /\ stageLog' = stageLog \o <<Ev("Generation", "ok"), Ev("BackendSecrets", "start")>>
       ELSE /\ pc' = "injectVibedBadge"
            /\ stageLog' = Append(stageLog, Ev("Generation", "ok"))
    /\ UNCHANGED <<inputVars, ghVars, rwVars, outVars, replies, trackVars>>

\* runClaudeQuery returns or throws to the pipeline; h is what the loop consumed.
\* An error thrown inside the loop is replaced by the timeout error when the
\* abort timer has fired (catch of runClaudeQuery).
ExitQuery(outcome, h) ==
    /\ attempts' = Append(attempts,
                     [variant |-> generating, outcome |-> outcome,
                      refusals |-> RefusalRun(h) >= MAX_CONSECUTIVE_REFUSALS,
                      errors |-> ErrorRun(h) >= MAX_CONSECUTIVE_ERRORS,
                      exhausted |-> turnCount >= maxTurns(generating),
                      result |-> result,
                      aborted |-> aborted])
    /\ EngineReset
    /\ IF outcome = "Success"
       THEN /\ generatedApp' = generating
            /\ failure' = failure
            /\ IF generating = "convex"
               THEN /\ pc' = "configureConvexAuthKeys"
                    /\ stageLog' = stageLog \o <<Ev("Generation", "ok"), Ev("BackendSecrets", "start")>>
               ELSE /\ pc' = "injectVibedBadge"
                    /\ stageLog' = Append(stageLog, Ev("Generation", "ok"))
       ELSE /\ generatedApp' = generatedApp
            /\ failure' = outcome
            /\ pc' = "catch"
            /\ stageLog' = Append(stageLog, Ev("Generation", "fail"))
    /\ UNCHANGED <<inputVars, ghVars, rwVars, outVars, replies, trackVars>>

InLoopThrow(kind) == IF aborted THEN "Timeout" ELSE kind

\* setTimeout(() => controller.abort(), HARD_TIMEOUT_MS) fires.
TimerFires ==
    /\ pc = "query"
    /\ ~aborted
    /\ aborted' = TRUE
    /\ UNCHANGED <<pc, inputVars, generatedApp, stageLog, failure, attempts, ghVars, rwVars, outVars, replies,
                   generating, turnCount, consecutiveErrors, consecutiveRefusals, result, lastError, msgs, trackVars>>

\* Variant of the assistant branch without `else { consecutiveRefusals = 0 }`.
OnAssistant_NoReset(msg) ==
    /\ pc = "query"
    /\ msg \in AssistantMsgs
    /\ IF isRefusal(msg) /\ consecutiveRefusals + 1 >= MAX_CONSECUTIVE_REFUSALS
       THEN ExitQuery(InLoopThrow("ContentRefused"), Append(msgs, msg))
       ELSE /\ turnCount' = turnCount + 1
            /\ consecutiveErrors' = 0
            /\ consecutiveRefusals' = IF isRefusal(msg) THEN consecutiveRefusals + 1 ELSE consecutiveRefusals
            /\ msgs' = Append(msgs, msg)
            /\ UNCHANGED <<pc, inputVars, generatedApp, stageLog, failure, attempts, ghVars, rwVars, outVars,
                           replies, generating, result, lastError, aborted, trackVars>>

\* if (msg.type === 'assistant') { ... }
OnAssistant(msg) ==
    /\ pc = "query"
    /\ msg \in AssistantMsgs
    /\ IF isRefusal(msg) /\ consecutiveRefusals + 1 >= MAX_CONSECUTIVE_REFUSALS
       THEN ExitQuery(InLoopThrow("ContentRefused"), Append(msgs, msg))
       ELSE /\ turnCount' = turnCount + 1
            /\ consecutiveErrors' = 0
            /\ consecutiveRefusals' = IF isRefusal(msg) THEN consecutiveRefusals + 1 ELSE 0
            /\ msgs' = Append(msgs, msg)
            /\ UNCHANGED <<pc, inputVars, generatedApp, stageLog, failure, attempts, ghVars, rwVars, outVars,
                           replies, generating, result, lastError, aborted, trackVars>>

\* else if (msg.type === 'result') { ... }
OnResult(msg) ==
    /\ pc = "query"
    /\ msg \in ResultMsgs
    /\ IF msg.subtype = "success"
       THEN /\ result' = IF msg.structured THEN "structured" ELSE "empty"
            /\ msgs' = Append(msgs, msg)
            /\ UNCHANGED <<pc, inputVars, generatedApp, stageLog, failure, attempts, ghVars, rwVars, outVars,
                           replies, generating, turnCount, consecutiveErrors, consecutiveRefusals,
                           lastError, aborted, trackVars>>
       ELSE IF consecutiveErrors + 1 >= MAX_CONSECUTIVE_ERRORS
       THEN ExitQuery(InLoopThrow("ProviderError"), Append(msgs, msg))
       ELSE /\ consecutiveErrors' = consecutiveErrors + 1
            /\ lastError' = "error"
            /\ msgs' = Append(msgs, msg)
            /\ UNCHANGED <<pc, inputVars, generatedApp, stageLog, failure, attempts, ghVars, rwVars, outVars,
                           replies, generating, turnCount, consecutiveRefusals, result, aborted, trackVars>>

\* The iterator of query() throws.
StreamThrows ==
    /\ pc = "query"
    /\ ExitQuery(InLoopThrow("SdkError"), msgs)

\* Variant without `if (!result?.structured_output) throw`.
StreamEnds_NoOutputCheck ==
    /\ pc = "query"
    /\ ExitQuery("Success", msgs)

\* The iterator is exhausted: finally clears the timer, then the result is read.
StreamEnds ==
    /\ pc = "query"
    /\ ExitQuery(IF result = "structured" THEN "Success" ELSE "IncompleteOutput", msgs)

(***************************************************************************)
(* processMentionToApp: src/pipeline.ts                                    *)
(***************************************************************************)
\* waitForDeployment(deploymentId, timeoutMs = 5 * 60 * 1000, intervalMs = 10_000)
timeoutMs  == 300000
intervalMs == 10000

\* Number of files of generatedApp.files that createGitHubRepo uploads.
MaxFiles == 1

Terminal == {"resolved", "rejected"}

PipeOff ==
    /\ pc = "off"
    /\ backend = "none"
    /\ template = "none"
    /\ generatedApp = "none"
    /\ stageLog = <<>>
    /\ failure = "none"
    /\ attempts = <<>>
    /\ gh = "idle"
    /\ ghFile = 0
    /\ rw = "idle"
    /\ rwElapsed = 0
    /\ screenshotBuffer = "undefined"
    /\ clonkPageUrl = "null"
    /\ replies = <<>>
    /\ EngineIdle

\* The channel adapter has called processMentionToApp(input).
PipeInit ==
    /\ pc = "start"
    /\ backend \in {"convex", "none"}
    /\ template \in {"threejs", "none"}
    /\ generatedApp = "none"
    /\ stageLog = <<>>
    /\ failure = "none"
    /\ attempts = <<>>
    /\ gh = "idle"
    /\ ghFile = 0
    /\ rw = "idle"
    /\ rwElapsed = 0
    /\ screenshotBuffer = "undefined"
    /\ clonkPageUrl = "null"
    /\ replies = <<>>
    /\ EngineIdle

Happened(stage, ev) == \E i \in DOMAIN stageLog : stageLog[i] = Ev(stage, ev)
Started(stage)      == Happened(stage, "start")

\* if (input.backend === 'convex') { ... createConvexProject(...)
Start ==
    /\ pc = "start"
    /\ IF backend = "convex"
       THEN /\ pc' = "createConvexProject"
            /\ stageLog' = Append(stageLog, Ev("BackendProvision", "start"))
       ELSE /\ pc' = "selectGenerator"
            /\ UNCHANGED stageLog
    /\ UNCHANGED <<inputVars, generatedApp, failure, attempts, ghVars, rwVars, outVars, replies, engVars, trackVars>>

\* Variant of the catch that keeps the backend and provisions again on quota.
ConvexCatch_RetryBackend(stage, isQuota) ==
    IF isQuota
    THEN /\ backend' = backend
         /\ pc' = "start"
         /\ failure' = failure
         /\ stageLog' = stageLog \o <<Ev(stage, "quota"), Ev("Downgrade", "start")>>
    ELSE /\ backend' = backend
         /\ pc' = "catch"
         /\ failure' = stage
         /\ stageLog' = Append(stageLog, Ev(stage, "fail"))

\* catch (convexError): isQuota = msg.includes('ProjectQuotaReached') || msg.includes('project quota')
ConvexCatch(stage, isQuota) ==
    IF isQuota
    THEN /\ backend' = "none"
         /\ pc' = "selectGenerator"
         /\ failure' = failure
         /\ stageLog' = stageLog \o <<Ev(stage, "quota"), Ev("Downgrade", "start")>>
    ELSE /\ backend' = backend
         /\ pc' = "catch"
         /\ failure' = stage
         /\ stageLog' = Append(stageLog, Ev(stage, "fail"))

\* Variant that configures the backend before the app is generated.
CreateConvexProject_SecretsFirst(outcome) ==
    /\ pc = "createConvexProject"
    /\ outcome \in {"ok", "quota", "error"}
    /\ template' = template
    /\ IF outcome = "ok"
       THEN /\ pc' = "configureConvexAuthKeys"
            /\ stageLog' = stageLog \o <<Ev("BackendProvision", "ok"), Ev("BackendSecrets", "start")>>
            /\ UNCHANGED <<backend, failure>>
       ELSE ConvexCatch("BackendProvision", outcome = "quota")
    /\ UNCHANGED <<generatedApp, attempts, ghVars, rwVars, outVars, replies, engVars, trackVars>>

\* await createConvexProject(sanitizedName) settles.
CreateConvexProject(outcome) ==
    /\ pc = "createConvexProject"
    /\ outcome \in {"ok", "quota", "error"}
    /\ template' = template
    /\ IF outcome = "ok"
       THEN /\ StartQuery("convex", <<Ev("BackendProvision", "ok")>>)
            /\ UNCHANGED <<backend, failure>>
       ELSE /\ ConvexCatch("BackendProvision", outcome = "quota")
            /\ UNCHANGED engVars
    /\ UNCHANGED <<generatedApp, attempts, ghVars, rwVars, outVars, replies, trackVars>>

\* await configureConvexAuthKeys(convex.deploymentUrl, convex.deployKey) settles.
ConfigureConvexAuthKeys(outcome) ==
    /\ pc = "configureConvexAuthKeys"
    /\ outcome \in {"ok", "quota", "error"}
    /\ template' = template
    /\ IF outcome = "ok"
       THEN /\ pc' = "deployConvexBackend"
            /\ stageLog' = stageLog \o <<Ev("BackendSecrets", "ok"), Ev("BackendFunctions", "start")>>
            /\ UNCHANGED <<backend, failure>>
       ELSE ConvexCatch("BackendSecrets", outcome = "quota")
    /\ UNCHANGED <<generatedApp, attempts, ghVars, rwVars, outVars, replies, engVars, trackVars>>

\* await deployConvexBackend(buildDir, convex.deployKey) settles.
DeployConvexBackend(outcome) ==
    /\ pc = "deployConvexBackend"
    /\ outcome \in {"ok", "quota", "error"}
    /\ template' = template
    /\ IF outcome = "ok"
       THEN /\ pc' = "selectGenerator"
            /\ stageLog' = Append(stageLog, Ev("BackendFunctions", "ok"))
            /\ UNCHANGED <<backend, failure>>
       ELSE ConvexCatch("BackendFunctions", outcome = "quota")
    /\ UNCHANGED <<generatedApp, attempts, ghVars, rwVars, outVars, replies, engVars, trackVars>>

\* if (!generatedApp && input.template === 'threejs') ... if (!input.backend && !generatedApp) ...
SelectGenerator ==
    /\ pc = "selectGenerator"
    /\ IF generatedApp = "none" /\ template = "threejs"
       THEN StartQuery("threejs", <<>>)
       ELSE IF backend = "none" /\ generatedApp = "none"
       THEN StartQuery("static", <<>>)
       ELSE /\ pc' = "injectVibedBadge"
            /\ UNCHANGED <<stageLog, engVars>>
    /\ UNCHANGED <<inputVars, generatedApp, failure, attempts, ghVars, rwVars, outVars, replies, trackVars>>

\* injectVibedBadge(generatedApp!.files); ... deployToVercel(...) is called.
InjectVibedBadge ==
    /\ pc = "injectVibedBadge"
    /\ IF generatedApp = "none"
       THEN /\ pc' = "catch"
            /\ failure' = "TypeError"
            /\ UNCHANGED stageLog
       ELSE /\ pc' = "deployToVercel"
            /\ failure' = failure
            /\ stageLog' = Append(stageLog, Ev("HostingDeploy", "start"))
    /\ UNCHANGED <<inputVars, generatedApp, attempts, ghVars, rwVars, outVars, replies, engVars, trackVars>>

\* Variant that awaits createGitHubRepo before it calls waitForDeployment.
DeployToVercel_SourceFirst(ok) ==
    /\ pc = "deployToVercel"
    /\ IF ok
       THEN /\ pc' = "promiseAll"
            /\ stageLog' = stageLog \o <<Ev("HostingDeploy", "ok"), Ev("SourcePublish", "start")>>
            /\ gh' = "creating"
            /\ rw' = rw
            /\ failure' = failure
       ELSE /\ pc' = "catch"
            /\ stageLog' = Append(stageLog, Ev("HostingDeploy", "fail"))
            /\ failure' = "HostingDeploy"
            /\ UNCHANGED <<gh, rw>>
    /\ UNCHANGED <<inputVars, generatedApp, attempts, ghFile, rwElapsed, outVars, replies, engVars, trackVars>>

\* await deployToVercel(...) settles; on success Promise.all([createGitHubRepo(...),
\* waitForDeployment(deploymentId)]) starts both calls.
DeployToVercel(ok) ==
    /\ pc = "deployToVercel"
    /\ IF ok
       THEN /\ pc' = "promiseAll"
            /\ stageLog' = stageLog \o <<Ev("HostingDeploy", "ok"), Ev("SourcePublish", "start"),
                                         Ev("ReadinessWait", "start")>>
            /\ gh' = "creating"
            /\ rw' = "polling"
            /\ failure' = failure
       ELSE /\ pc' = "catch"
            /\ stageLog' = Append(stageLog, Ev("HostingDeploy", "fail"))
            /\ failure' = "HostingDeploy"
            /\ UNCHANGED <<gh, rw>>
    /\ UNCHANGED <<inputVars, generatedApp, attempts, ghFile, rwElapsed, outVars, replies, engVars, trackVars>>

\* createGitHubRepo: axios.post(`${GITHUB_API}/user/repos`) settles.
GhCreateRepo(ok) ==
    /\ gh = "creating"
    /\ IF ok
       THEN /\ gh' = IF MaxFiles = 0 THEN "resolved" ELSE "uploading"
            /\ ghFile' = 1
            /\ stageLog' = Append(stageLog, Ev("SourcePublish", IF MaxFiles = 0 THEN "ok" ELSE "created"))
       ELSE /\ gh' = "rejected"
            /\ ghFile' = ghFile
            /\ stageLog' = Append(stageLog, Ev("SourcePublish", "fail"))
    /\ UNCHANGED <<pc, inputVars, generatedApp, failure, attempts, rwVars, outVars, replies, engVars, trackVars>>

\* Variant of the upload loop without the try/catch around axios.put.
GhUploadFile_Fatal(ok) ==
    /\ gh = "uploading"
    /\ ghFile' = ghFile + 1
    /\ gh' = IF ~ok THEN "rejected" ELSE IF ghFile + 1 > MaxFiles THEN "resolved" ELSE "uploading"
    /\ stageLog' = stageLog
                   \o (IF ok THEN <<>> ELSE <<Ev("SourcePublish", "upload_failed")>>)
                   \o (IF ok /\ ghFile + 1 > MaxFiles THEN <<Ev("SourcePublish", "ok")>> ELSE <<>>)
    /\ UNCHANGED <<pc, inputVars, generatedApp, failure, attempts, rwVars, outVars, replies, engVars, trackVars>>

\* createGitHubRepo: one axios.put of the upload loop settles; a failure is logged only.
GhUploadFile(ok) ==
    /\ gh = "uploading"
    /\ ghFile' = ghFile + 1
    /\ gh' = IF ghFile + 1 > MaxFiles THEN "resolved" ELSE "uploading"
    /\ stageLog' = stageLog
                   \o (IF ok THEN <<>> ELSE <<Ev("SourcePublish", "upload_failed")>>)
                   \o (IF ghFile + 1 > MaxFiles THEN <<Ev("SourcePublish", "ok")>> ELSE <<>>)
    /\ UNCHANGED <<pc, inputVars, generatedApp, failure, attempts, rwVars, outVars, replies, engVars, trackVars>>

\* Variant of the poll that returns on ERROR and CANCELED as it does on READY.
RwPoll_AnyFinalState(state) ==
    /\ rw = "polling"
    /\ state \in {"READY", "ERROR", "CANCELED", "BUILDING", "request_failed"}
    /\ rw' = CASE state \in {"READY", "ERROR", "CANCELED"} -> "resolved"
               [] state = "BUILDING" -> "sleeping"
               [] OTHER -> "rejected"
    /\ stageLog' = IF state = "BUILDING" THEN stageLog ELSE Append(stageLog, Ev("ReadinessWait", state))
    /\ rwElapsed' = IF state = "BUILDING" THEN rwElapsed ELSE 0
    /\ UNCHANGED <<pc, inputVars, generatedApp, failure, attempts, ghVars, outVars, replies, engVars, trackVars>>

\* waitForDeployment: the axios.get of one poll settles. `start` is local to
\* the call: once the call has returned or thrown from here it is gone.
RwPoll(state) ==
    /\ rw = "polling"
    /\ state \in {"READY", "ERROR", "CANCELED", "BUILDING", "request_failed"}
    /\ rw' = CASE state = "READY" -> "resolved"
               [] state = "BUILDING" -> "sleeping"
               [] OTHER -> "rejected"
    /\ stageLog' = IF state = "BUILDING" THEN stageLog ELSE Append(stageLog, Ev("ReadinessWait", state))
    /\ rwElapsed' = IF state = "BUILDING" THEN rwElapsed ELSE 0
    /\ UNCHANGED <<pc, inputVars, generatedApp, failure, attempts, ghVars, outVars, replies, engVars, trackVars>>

\* waitForDeployment: the sleep ends and `while (Date.now() - start < timeoutMs)` is tested;
\* slow is a poll whose request took one more interval.
RwWake(slow) ==
    /\ rw = "sleeping"
    /\ LET elapsed == rwElapsed + (IF slow THEN 2 * intervalMs ELSE intervalMs) IN
        /\ rwElapsed' = elapsed
        /\ IF elapsed < timeoutMs
           THEN /\ rw' = "polling"
                /\ UNCHANGED stageLog
           ELSE /\ rw' = "rejected"
                /\ stageLog' = Append(stageLog, Ev("ReadinessWait", "timeout"))
    /\ UNCHANGED <<pc, inputVars, generatedApp, failure, attempts, ghVars, outVars, replies, engVars, trackVars>>

\* Variant that goes on to the screenshot as soon as createGitHubRepo resolved.
PromiseAllResolved_SourceOnly ==
    /\ pc = "promiseAll"
    /\ gh = "resolved"
    /\ pc' = "takeScreenshot"
    /\ stageLog' = Append(stageLog, Ev("VisualVerification", "start"))
    /\ UNCHANGED <<inputVars, generatedApp, failure, attempts, ghVars, rwVars, outVars, replies, engVars, trackVars>>

\* Promise.all resolves: both promises have resolved; takeScreenshot is called.
PromiseAllResolved ==
    /\ pc = "promiseAll"
    /\ gh = "resolved"
    /\ rw = "resolved"
    /\ pc' = "takeScreenshot"
    /\ stageLog' = Append(stageLog, Ev("VisualVerification", "start"))
    /\ UNCHANGED <<inputVars, generatedApp, failure, attempts, ghVars, rwVars, outVars, replies, engVars, trackVars>>

\* Promise.all rejects with the first rejection; the other promise keeps running.
PromiseAllRejected ==
    /\ pc = "promiseAll"
    /\ gh = "rejected" \/ rw = "rejected"
    /\ pc' = "catch"
    /\ \E stage \in {"SourcePublish", "ReadinessWait"} :
         /\ stage = "SourcePublish" => gh = "rejected"
         /\ stage = "ReadinessWait" => rw = "rejected"
         /\ failure' = stage
    /\ UNCHANGED <<inputVars, generatedApp, stageLog, attempts, ghVars, rwVars, outVars, replies, engVars, trackVars>>

\* Variant without the try/catch around takeScreenshot.
TakeScreenshot_Fatal(ok) ==
    /\ pc = "takeScreenshot"
    /\ screenshotBuffer' = IF ok THEN "png" ELSE "undefined"
    /\ pc' = IF ok THEN "publishToClonkSite" ELSE "catch"
    /\ failure' = IF ok THEN failure ELSE "VisualVerification"
    /\ stageLog' = stageLog \o (IF ok THEN <<Ev("VisualVerification", "ok"), Ev("GalleryPublish", "start")>>
                                     ELSE <<Ev("VisualVerification", "fail")>>)
    /\ UNCHANGED <<inputVars, generatedApp, attempts, ghVars, rwVars, clonkPageUrl, replies, engVars, trackVars>>

\* try { screenshotBuffer = await takeScreenshot(vercelUrl) } catch { warn }; publishToClonkSite is called.
TakeScreenshot(ok) ==
    /\ pc = "takeScreenshot"
    /\ screenshotBuffer' = IF ok THEN "png" ELSE "undefined"
    /\ pc' = "publishToClonkSite"
    /\ stageLog' = stageLog \o <<Ev("VisualVerification", IF ok THEN "ok" ELSE "fail"),
                                 Ev("GalleryPublish", "start")>>
    /\ failure' = failure
    /\ UNCHANGED <<inputVars, generatedApp, attempts, ghVars, rwVars, clonkPageUrl, replies, engVars, trackVars>>

\* Variant that does not await publishToClonkSite before it replies.
PublishToClonkSite_NotAwaited(outcome) ==
    /\ pc = "publishToClonkSite"
    /\ outcome \in {"url", "null", "fail"}
    /\ clonkPageUrl' = "null"
    /\ pc' = "reply"
    /\ stageLog' = stageLog
    /\ UNCHANGED <<inputVars, generatedApp, failure, attempts, ghVars, rwVars, screenshotBuffer, replies, engVars, trackVars>>

\* try { clonkPageUrl = await publishToClonkSite({...}) } catch { warn }; input.reply is called.
PublishToClonkSite(outcome) ==
    /\ pc = "publishToClonkSite"
    /\ outcome \in {"url", "null", "fail"}
    /\ clonkPageUrl' = IF outcome = "url" THEN "url" ELSE "null"
    /\ pc' = "reply"
    /\ stageLog' = Append(stageLog, Ev("GalleryPublish", outcome))
    /\ UNCHANGED <<inputVars, generatedApp, failure, attempts, ghVars, rwVars, screenshotBuffer, replies, engVars, trackVars>>

\* Variant of the reply text without the "Contribute" line.
replyText_NoSource ==
    [kind |-> "success",
     urls |-> {"vercelUrl"} \cup (IF clonkPageUrl = "url" THEN {"clonkPageUrl"} ELSE {}),
     screenshot |-> screenshotBuffer # "undefined"]

\* `✅ App live: ${vercelUrl}${backendNote}${clonkLink}\n📝 Contribute: ${githubUrl}`
replyText ==
    [kind |-> "success",
     urls |-> {"vercelUrl", "githubUrl"} \cup (IF clonkPageUrl = "url" THEN {"clonkPageUrl"} ELSE {}),
     screenshot |-> screenshotBuffer # "undefined"]

\* Variant in which the reply of the channel throws after it has sent the text.
Reply_ThrowsAfterSend(ok) ==
    /\ pc = "reply"
    /\ replies' = Append(replies, [replyText EXCEPT !.kind = "success"] @@ [delivered |-> TRUE])
    /\ IF ok
       THEN /\ pc' = "resolved"
            /\ failure' = failure
       ELSE /\ pc' = "catch"
            /\ failure' = "Reply"
    /\ UNCHANGED <<inputVars, generatedApp, stageLog, attempts, ghVars, rwVars, outVars, engVars, trackVars>>

\* await input.reply(replyText, screenshotBuffer) settles: the send is the last
\* step of every channel's reply, so a reply that throws was not delivered.
Reply(ok) ==
    /\ pc = "reply"
    /\ replies' = Append(replies, [replyText EXCEPT !.kind = "success"] @@ [delivered |-> ok])
    /\ IF ok
       THEN /\ pc' = "resolved"
            /\ failure' = failure
       ELSE /\ pc' = "catch"
            /\ failure' = "Reply"
    /\ UNCHANGED <<inputVars, generatedApp, stageLog, attempts, ghVars, rwVars, outVars, engVars, trackVars>>

\* Variant of the catch that sends the apology again when sending it failed.
Apologize_UntilDelivered(ok) ==
    /\ pc = "catch"
    /\ replies' = Append(replies, [kind |-> "apology", urls |-> {}, screenshot |-> FALSE, delivered |-> ok])
    /\ pc' = IF ok \/ Len(replies) >= 3 THEN "rejected" ELSE "catch"
    /\ UNCHANGED <<inputVars, generatedApp, stageLog, failure, attempts, ghVars, rwVars, outVars, engVars, trackVars>>

\* catch (error): try { await input.reply(`Sorry, ...`) } catch { log }; throw new Error(safeMessage)
Apologize(ok) ==
    /\ pc = "catch"
    /\ replies' = Append(replies, [kind |-> "apology", urls |-> {}, screenshot |-> FALSE, delivered |-> ok])
    /\ pc' = "rejected"
    /\ UNCHANGED <<inputVars, generatedApp, stageLog, failure, attempts, ghVars, rwVars, outVars, engVars, trackVars>>

(***************************************************************************)
(* Template staging, creative files and merge: src/services/claude.ts      *)
(***************************************************************************)
\* Number of times mergeWithTemplate is applied to one generation's output.
MaxCalls == 2

TemplateNames == {"react-vite", "convex-react-vite", "threejs-react-vite"}

File(path, content) == [path |-> path, content |-> content]

\* readTemplateFiles(template): the files of templates/<template>, each with
\* its path relative to that directory and its content.
TemplatePaths(tname) ==
    (IF tname = "convex-react-vite" THEN <<"convex/auth.ts">> ELSE <<>>)
    \o <<"index.html.template", "package.json", "src/main.tsx", "src/vite-env.d.ts">>
readTemplateFiles(tname) ==
    [i \in DOMAIN TemplatePaths(tname) |->
        File(TemplatePaths(tname)[i], tname \o ":" \o TemplatePaths(tname)[i])]

RECURSIVE JoinLines(_)
\* fonts.map(url => `<link rel="stylesheet" href="${url}">`).join('\n')
JoinLines(urls) ==
    IF urls = <<>> THEN ""
    ELSE IF Len(urls) = 1 THEN "<link " \o urls[1] \o ">"
    ELSE "<link " \o urls[1] \o ">\n" \o JoinLines(Tail(urls))

\* tmpl.content.replace('{{TITLE}}', title).replace('{{FONTS}}', fonts)
indexHtml(content, title, fonts) == content \o "[TITLE=" \o title \o "][FONTS=" \o fonts \o "]"

RECURSIVE JoinDeps(_)
JoinDeps(names) == IF names = <<>> THEN "" ELSE "," \o Head(names) \o JoinDeps(Tail(names))
\* JSON.stringify({...pkg, dependencies: {...pkg.dependencies, ...extra}}, null, 2)
packageJson(content, extraDependencies) == "json(" \o content \o JoinDeps(extraDependencies) \o ")"

DiskPaths ==
    {"index.html", "package.json", "src/main.tsx", "src/vite-env.d.ts", "src/App.tsx",
     "convex/auth.ts", "convex/schema.ts", ".env.local"}
\* Files the agent writes with the Write tool.
AgentPaths == {"src/App.tsx", "src/main.tsx", "src/vite-env.d.ts", "convex/schema.ts"}

\* The infrastructure files the system prompt tells the agent not to recreate.
protectedPaths(tname) ==
    {"package.json", "index.html", "src/main.tsx"}
    \cup (IF tname = "convex-react-vite" THEN {"convex/auth.ts"} ELSE {})
AgentContent(path) == "agent:" \o path
envLocal(url) == "VITE_CONVEX_URL=" \o url \o "\n"

\* stageTemplateToBuildDir(template, buildDir, convexUrl): what is at each path.
stagedContent(tname, url, path) ==
    LET files == readTemplateFiles(tname)
        at(p) == {i \in DOMAIN files : files[i].path = p}
    IN  IF path = "index.html" /\ at("index.html.template") # {}
        THEN indexHtml(files[CHOOSE i \in at("index.html.template") : TRUE].content, "App", "")
        ELSE IF path = ".env.local" /\ tname = "convex-react-vite" /\ url # "none"
        THEN envLocal(url)
        ELSE IF path # "index.html.template" /\ at(path) # {}
        THEN files[CHOOSE i \in at(path) : TRUE].content
        ELSE "absent"

\* readCreativeFilesFromDisk(buildDir): every file under src/ and then convex/.
creativeDirs == <<"src/App.tsx", "src/main.tsx", "src/vite-env.d.ts", "convex/auth.ts", "convex/schema.ts">>
readCreativeFilesFromDisk(disk) ==
    LET present(p) == disk[p] # "absent"
        paths == SelectSeq(creativeDirs, present)
    IN  [i \in DOMAIN paths |-> File(paths[i], disk[paths[i]])]

\* Variant that serializes package.json again whatever extraDependencies is.
mergeTemplateFile_AlwaysRewrites(tmpl, raw) ==
    IF tmpl.path = "index.html.template"
    THEN File("index.html",
              indexHtml(tmpl.content, IF raw.title # "" THEN raw.title ELSE raw.appName,
                        JoinLines(raw.fonts)))
    ELSE IF tmpl.path = "package.json"
    THEN File("package.json", packageJson(tmpl.content, raw.extraDependencies))
    ELSE tmpl

\* The body of `for (const tmpl of templateFiles)`.
mergeTemplateFile(tmpl, raw) ==
    IF tmpl.path = "index.html.template"
    THEN File("index.html",
              indexHtml(tmpl.content, IF raw.title # "" THEN raw.title ELSE raw.appName,
                        JoinLines(raw.fonts)))
    ELSE IF tmpl.path = "package.json" /\ Len(raw.extraDependencies) > 0
    THEN File("package.json", packageJson(tmpl.content, raw.extraDependencies))
    ELSE tmpl

\* The template part of mergedFiles, before raw.files are looked at.
mergedTemplate(raw, tname, url) ==
    LET templateFiles == readTemplateFiles(tname)
        processed == [i \in DOMAIN templateFiles |-> mergeTemplateFile(templateFiles[i], raw)]
    IN  IF tname = "convex-react-vite" /\ url # "none"
        THEN Append(processed, File(".env.local", envLocal(url)))
        ELSE processed

\* const templatePaths = new Set(mergedFiles.map((f) => f.path))
templatePaths(raw, tname, url) ==
    {mergedTemplate(raw, tname, url)[i].path : i \in DOMAIN mergedTemplate(raw, tname, url)}

\* Variant of the merge that does what its comment says: Claude's version of
\* a template file replaces the template's.
mergeWithTemplate_CreativeWins(raw, tname, url) ==
    LET creativePaths == {raw.files[i].path : i \in DOMAIN raw.files}
        kept(f) == f.path \notin creativePaths
    IN  [appName |-> raw.appName,
         files |-> SelectSeq(mergedTemplate(raw, tname, url), kept) \o raw.files]

\* mergeWithTemplate(raw, template, convexUrl)
mergeWithTemplate(raw, tname, url) ==
    LET fresh(f) == f.path \notin templatePaths(raw, tname, url)
    IN  [appName |-> raw.appName,
         files |-> mergedTemplate(raw, tname, url) \o SelectSeq(raw.files, fresh)]

MergeOff ==
    /\ mpc = "off"
    /\ templateName = "react-vite"
    /\ convexUrl = "none"
    /\ buildDir = [p \in DiskPaths |-> "absent"]
    /\ rawApp = <<>>
    /\ mergedApp = [k \in 1..MaxCalls |-> <<>>]

\* generateApp / generateConvexApp / generateThreeJsApp has created buildDir.
MergeInit ==
    /\ mpc = "stage"
    /\ templateName \in TemplateNames
    /\ convexUrl = (IF templateName = "convex-react-vite" THEN "https://d.convex.cloud" ELSE "none")
    /\ buildDir = [p \in DiskPaths |-> "absent"]
    /\ rawApp = <<>>
    /\ mergedApp = [k \in 1..MaxCalls |-> <<>>]

\* stageTemplateToBuildDir(template, buildDir, convexUrl)
Stage ==
    /\ mpc = "stage"
    /\ buildDir' = [p \in DiskPaths |-> stagedContent(templateName, convexUrl, p)]
    /\ mpc' = "agent"
    /\ UNCHANGED <<templateName, convexUrl, rawApp, mergedApp, pollVars, handleVars, runVars, dirVars, adaptVars, tgVars, waitVars>>

\* The agent writes one file into the working area.
AgentWrite(path) ==
    /\ mpc = "agent"
    /\ path \in AgentPaths
    /\ buildDir[path] # AgentContent(path)
    /\ buildDir' = [buildDir EXCEPT ![path] = AgentContent(path)]
    /\ UNCHANGED <<mpc, templateName, convexUrl, rawApp, mergedApp, pollVars, handleVars, runVars, dirVars, adaptVars, tgVars, waitVars>>

Titles    == {"", "Title"}
FontLists == {<<>>, <<"https://fonts/a">>}
DepLists  == {<<>>, <<"three">>}

\* runClaudeQuery returns { ...metadata, files: readCreativeFilesFromDisk(buildDir) }.
RunClaudeQueryReturns(title, fonts, extraDependencies) ==
    /\ mpc = "agent"
    /\ rawApp' = <<[appName |-> "app", title |-> title, fonts |-> fonts,
                    extraDependencies |-> extraDependencies,
                    files |-> readCreativeFilesFromDisk(buildDir)]>>
    /\ mpc' = "merge"
    /\ UNCHANGED <<templateName, convexUrl, buildDir, mergedApp, pollVars, handleVars, runVars, dirVars, adaptVars, tgVars, waitVars>>

\* Variant whose output order depends on the call.
Merge_OrderByCall(k) ==
    /\ mpc = "merge"
    /\ mergedApp[k] = <<>>
    /\ LET app == mergeWithTemplate(rawApp[1], templateName, convexUrl)
           n   == Len(app.files)
       IN  mergedApp' = [mergedApp EXCEPT ![k] =
               <<[app EXCEPT !.files = IF k = 1 THEN app.files
                                        ELSE [i \in 1..n |-> app.files[n + 1 - i]]]>>]
    /\ UNCHANGED <<mpc, templateName, convexUrl, buildDir, rawApp, pollVars, handleVars, runVars, dirVars, adaptVars, tgVars, waitVars>>

\* The k-th application of mergeWithTemplate to the same arguments.
Merge(k) ==
    /\ mpc = "merge"
    /\ mergedApp[k] = <<>>
    /\ mergedApp' = [mergedApp EXCEPT ![k] = <<mergeWithTemplate(rawApp[1], templateName, convexUrl)>>]
    /\ UNCHANGED <<mpc, templateName, convexUrl, buildDir, rawApp, pollVars, handleVars, runVars, dirVars, adaptVars, tgVars, waitVars>>

(***************************************************************************)
(* The working areas of generations that run at the same time:             *)
(* createBuildDir, stageTemplateToBuildDir, readCreativeFilesFromDisk,     *)
(* fs.rmSync and the cwd of `npx convex deploy`.                           *)
(***************************************************************************)
MaxBuilds == 2
\* crypto.randomBytes(4).toString('hex') takes one of MaxIds values.
MaxIds    == 2
Builds    == 1..MaxBuilds
BuildIds  == 1..MaxIds

IdleBuild == [pc |-> "idle", variant |-> "none", dir |-> 0, read |-> 0, deployed |-> 0]

DirsInit ==
    /\ builds = [a \in Builds |-> IdleBuild]
    /\ tmp = [id \in BuildIds |-> 0]

\* const buildDir = createBuildDir(); stageTemplateToBuildDir(template, buildDir):
\* fs.rmSync(buildDir, { recursive: true, force: true }) and the template is
\* written; then runClaudeQuery is awaited.
GeneratorStarts(a, variant, id) ==
    /\ builds[a].pc = "idle"
    /\ a > 1 => builds[a - 1].pc # "idle"
    /\ builds' = [builds EXCEPT ![a] = [@ EXCEPT !.pc = "query", !.variant = variant, !.dir = id]]
    /\ tmp' = [tmp EXCEPT ![id] = a]
    /\ UNCHANGED <<pollVars, handleVars, runVars, mergeVars, adaptVars, tgVars, waitVars>>

\* runClaudeQuery throws: the generator rejects and buildDir stays.
GeneratorFails(a) ==
    /\ builds[a].pc = "query"
    /\ builds' = [builds EXCEPT ![a].pc = "failed"]
    /\ UNCHANGED <<tmp, pollVars, handleVars, runVars, mergeVars, adaptVars, tgVars, waitVars>>

\* runClaudeQuery returns: readCreativeFilesFromDisk(buildDir) has read the
\* working area; generateApp and generateThreeJsApp then remove it,
\* generateConvexApp returns its path in mergedApp.buildDir.
GeneratorReturns(a) ==
    /\ builds[a].pc = "query"
    /\ builds' = [builds EXCEPT ![a] = [@ EXCEPT !.read = tmp[builds[a].dir],
                                                 !.pc = IF builds[a].variant = "convex" THEN "kept" ELSE "done"]]
    /\ tmp' = IF builds[a].variant = "convex" THEN tmp ELSE [tmp EXCEPT ![builds[a].dir] = 0]
    /\ UNCHANGED <<pollVars, handleVars, runVars, mergeVars, adaptVars, tgVars, waitVars>>

\* deployConvexBackend(buildDir, deployKey): `npx convex deploy` with cwd buildDir.
ConvexDeploys(a) ==
    /\ builds[a].pc = "kept"
    /\ builds' = [builds EXCEPT ![a] = [@ EXCEPT !.deployed = tmp[builds[a].dir], !.pc = "done"]]
    /\ UNCHANGED <<tmp, pollVars, handleVars, runVars, mergeVars, adaptVars, tgVars, waitVars>>

(***************************************************************************)
(* The channel adapters: pollXMentions (channels/x.ts), handleBuildRequest *)
(* (channels/telegram.ts) and handleWebBuild (channels/web.ts), from the   *)
(* request to the call of the pipeline.                                    *)
(***************************************************************************)
MaxRequests == 2
Requests    == 1..MaxRequests
Channels    == {"x", "telegram", "web"}

IdleRequest == [pc |-> "idle", channel |-> "none", classified |-> FALSE, moderated |-> FALSE, replied |-> "none"]

AdaptersInit ==
    /\ reqs = [r \in Requests |-> IdleRequest]
    /\ jobStore = <<>>

\* persistJob(payload): the POST to /api/job, only the web adapter calls it.
persistJob(channel, r, status, stage) ==
    IF channel = "web"
    THEN Append(jobStore, [jobId |-> r, status |-> status, stage |-> stage])
    ELSE jobStore

\* The adapter receives a request and awaits classifyTweet; handleWebBuild
\* first persists the initial state of the job.
Receive(r, channel) ==
    /\ reqs[r].pc = "idle"
    /\ r > 1 => reqs[r - 1].pc # "idle"
    /\ reqs' = [reqs EXCEPT ![r] = [IdleRequest EXCEPT !.pc = "classifying", !.channel = channel]]
    /\ jobStore' = persistJob(channel, r, "processing", "classifying")
    /\ UNCHANGED <<pollVars, handleVars, runVars, mergeVars, dirVars, tgVars, waitVars>>

\* classifyTweet resolves; on true moderateContent is awaited.
Classified(r, isAppRequest) ==
    /\ reqs[r].pc = "classifying"
    /\ IF isAppRequest
       THEN /\ reqs' = [reqs EXCEPT ![r].pc = "moderating", ![r].classified = TRUE]
            /\ UNCHANGED jobStore
       ELSE /\ reqs' = [reqs EXCEPT ![r].pc = "rejected"]
            /\ jobStore' = persistJob(reqs[r].channel, r, "error", "classifying")
    /\ UNCHANGED <<pollVars, handleVars, runVars, mergeVars, dirVars, tgVars, waitVars>>

\* moderateContent resolves; on true the X and Telegram adapters call
\* onMention (handleMention inserts the key and starts the pipeline) and the
\* web adapter calls processMentionToApp itself.
Moderated(r, isSafe) ==
    /\ reqs[r].pc = "moderating"
    /\ IF isSafe
       THEN /\ reqs' = [reqs EXCEPT ![r].pc = "running", ![r].moderated = TRUE]
            /\ processingMessages' =
                  IF reqs[r].channel = "web" THEN processingMessages
                  ELSE processingMessages \cup {KeyOf(reqs[r].channel, ToString(r))}
            /\ UNCHANGED jobStore
       ELSE /\ reqs' = [reqs EXCEPT ![r].pc = "rejected"]
            /\ jobStore' = persistJob(reqs[r].channel, r, "error", "classifying")
            /\ UNCHANGED processingMessages
    /\ UNCHANGED <<pollVars, deliveries, jobs, runVars, mergeVars, dirVars, tgVars, waitVars>>

\* The pipeline calls input.reply(text), with the success text at the end of
\* its try block or with the apology from its catch block. The reply of the
\* web adapter is persistJob({ jobId, status: 'done', stage: 'done', result: text }).
PipelineReplies(r, kind) ==
    /\ reqs[r].pc = "running"
    /\ reqs[r].replied = "none"
    /\ reqs' = [reqs EXCEPT ![r].replied = kind]
    /\ jobStore' = persistJob(reqs[r].channel, r, "done", "done")
    /\ UNCHANGED <<pollVars, handleVars, runVars, mergeVars, dirVars, tgVars, waitVars>>

\* The pipeline settles, resolved after the success reply and rejected after
\* the apology: the registry key is released; the .catch of the web adapter
\* persists the error.
PipelineEnds(r) ==
    /\ reqs[r].pc = "running"
    /\ reqs[r].replied # "none"
    /\ reqs' = [reqs EXCEPT ![r].pc = "settled"]
    /\ processingMessages' = processingMessages \ {KeyOf(reqs[r].channel, ToString(r))}
    /\ jobStore' = IF reqs[r].replied = "success" THEN jobStore
                   ELSE persistJob(reqs[r].channel, r, "error", "error")
    /\ UNCHANGED <<pollVars, deliveries, jobs, runVars, mergeVars, dirVars, tgVars, waitVars>>

AdaptersNext ==
    \/ \E r \in Requests, channel \in Channels : Receive(r, channel)
    \/ \E r \in Requests, b \in BOOLEAN : Classified(r, b)
    \/ \E r \in Requests, b \in BOOLEAN : Moderated(r, b)
    \/ \E r \in Requests, kind \in {"success", "apology"} : PipelineReplies(r, kind)
    \/ \E r \in Requests : PipelineEnds(r)

(***************************************************************************)
(* handleBuildRequest and makeTelegramProgress: channels/telegram.ts, with *)
(* the registry of handleMention.                                          *)
(***************************************************************************)
MaxUpdates    == 2
MaxChats      == 2
MaxMessageIds == 2
Updates       == 1..MaxUpdates
\* ctx.chat.id and ctx.message.message_id: Telegram numbers the messages of
\* every chat on their own, an inbound message is the pair.
Chats         == 1..MaxChats
TgMessageIds  == 1..MaxMessageIds

IdleUpdate == [pc |-> "idle", chat |-> 0, message_id |-> 0, typingInterval |-> FALSE]

TgInit == tg = [u \in Updates |-> IdleUpdate]

\* messageId: String(ctx.message!.message_id), source: 'telegram'
TgKey(u) == KeyOf("telegram", ToString(tg[u].message_id))

\* The bot receives a message: classifyTweet and moderateContent are awaited;
\* a message either of them rejects is skipped, for the others reactToMessage
\* and sendAcknowledgement are awaited.
handleBuildRequest(u, chat, message_id, isBuild) ==
    /\ tg[u].pc = "idle"
    /\ u > 1 => tg[u - 1].pc # "idle"
    /\ tg' = [tg EXCEPT ![u] = [IdleUpdate EXCEPT !.pc = IF isBuild THEN "acknowledging" ELSE "skipped",
                                                  !.chat = chat, !.message_id = message_id]]
    /\ UNCHANGED <<pollVars, handleVars, runVars, mergeVars, dirVars, adaptVars, waitVars>>

\* makeTelegramProgress: typingInterval = setInterval(sendTyping, 4000); then
\* onMention(input) runs handleMention: a key the registry holds makes it
\* return, otherwise the key is added and processMentionToApp is called.
\* handleBuildRequest returns in both cases.
makeTelegramProgress(u) ==
    /\ tg[u].pc = "acknowledging"
    /\ IF TgKey(u) \in processingMessages
       THEN /\ tg' = [tg EXCEPT ![u].typingInterval = TRUE, ![u].pc = "dropped"]
            /\ UNCHANGED processingMessages
       ELSE /\ tg' = [tg EXCEPT ![u].typingInterval = TRUE, ![u].pc = "running"]
            /\ processingMessages' = processingMessages \cup {TgKey(u)}
    /\ UNCHANGED <<pollVars, deliveries, jobs, runVars, mergeVars, dirVars, adaptVars, waitVars>>

\* The pipeline calls input.reply, with the success text or, from its catch,
\* with the apology: stopTyping() clears the interval before the reply is sent.
stopTyping(u) ==
    /\ tg[u].pc = "running"
    /\ tg' = [tg EXCEPT ![u].typingInterval = FALSE, ![u].pc = "replied"]
    /\ UNCHANGED <<pollVars, handleVars, runVars, mergeVars, dirVars, adaptVars, waitVars>>

\* processMentionToApp settles after its reply:
\* .finally(() => processingMessages.delete(key))
TgPipelineSettles(u) ==
    /\ tg[u].pc = "replied"
    /\ tg' = [tg EXCEPT ![u].pc = "settled"]
    /\ processingMessages' = processingMessages \ {TgKey(u)}
    /\ UNCHANGED <<pollVars, deliveries, jobs, runVars, mergeVars, dirVars, adaptVars, waitVars>>

TelegramNext ==
    \/ \E u \in Updates, chat \in Chats, message_id \in TgMessageIds, isBuild \in BOOLEAN :
          handleBuildRequest(u, chat, message_id, isBuild)
    \/ \E u \in Updates : makeTelegramProgress(u)
    \/ \E u \in Updates : stopTyping(u)
    \/ \E u \in Updates : TgPipelineSettles(u)

(***************************************************************************)
(* waitForDeployment on its own: services/vercel.ts, with the requests it  *)
(* makes counted.                                                          *)
(***************************************************************************)
WaitOff == wait = [pc |-> "off", elapsed |-> 0, polls |-> 0, state |-> "none"]

\* waitForDeployment(deploymentId) has been called: const start = Date.now().
WaitInit == wait = [pc |-> "loop", elapsed |-> 0, polls |-> 0, state |-> "none"]

\* Variant of the loop head that allows twice the timeout.
WaitLoop_TwiceTheTimeout ==
    /\ wait.pc = "loop"
    /\ wait' = IF wait.elapsed < 2 * timeoutMs
               THEN [wait EXCEPT !.pc = "get", !.polls = @ + 1]
               ELSE [wait EXCEPT !.pc = "rejected", !.state = "timeout"]
    /\ UNCHANGED <<pollVars, handleVars, runVars, mergeVars, dirVars, adaptVars, tgVars>>

\* while (Date.now() - start < timeoutMs) { await axios.get(...) ... }
\* throw new Error('Deployment timed out after 5 minutes')
WaitLoop ==
    /\ wait.pc = "loop"
    /\ wait' = IF wait.elapsed < timeoutMs
               THEN [wait EXCEPT !.pc = "get", !.polls = @ + 1]
               ELSE [wait EXCEPT !.pc = "rejected", !.state = "timeout"]
    /\ UNCHANGED <<pollVars, handleVars, runVars, mergeVars, dirVars, adaptVars, tgVars>>

\* The axios.get settles, at once or after one more interval (slow): READY
\* returns, ERROR and CANCELED throw, a failed request throws, any other
\* readyState goes on to the sleep.
WaitGet(state, slow) ==
    /\ wait.pc = "get"
    /\ state \in {"READY", "ERROR", "CANCELED", "BUILDING", "request_failed"}
    /\ wait' = [wait EXCEPT !.pc = CASE state = "READY" -> "resolved"
                                    [] state = "BUILDING" -> "sleep"
                                    [] OTHER -> "rejected",
                            !.state = state,
                            !.elapsed = @ + (IF slow THEN intervalMs ELSE 0)]
    /\ UNCHANGED <<pollVars, handleVars, runVars, mergeVars, dirVars, adaptVars, tgVars>>

\* await new Promise((r) => setTimeout(r, intervalMs)) ends.
WaitSleep ==
    /\ wait.pc = "sleep"
    /\ wait' = [wait EXCEPT !.pc = "loop", !.elapsed = @ + intervalMs]
    /\ UNCHANGED <<pollVars, handleVars, runVars, mergeVars, dirVars, adaptVars, tgVars>>

WaitNext ==
    \/ WaitLoop
    \/ \E state \in {"READY", "ERROR", "CANCELED", "BUILDING", "request_failed"}, slow \in BOOLEAN :
          WaitGet(state, slow)
    \/ WaitSleep

(***************************************************************************)
(* Specifications                                                          *)
(***************************************************************************)
TrackerInit == PollInit /\ HandleInit /\ PipeOff /\ MergeOff /\ DirsInit /\ AdaptersInit /\ TgInit /\ WaitOff
Init        == PollInit /\ HandleInit /\ PipeInit /\ MergeOff /\ DirsInit /\ AdaptersInit /\ TgInit /\ WaitOff

PollNext ==
    \/ PostTweet
    \/ \E p \in Polls : PollStart(p)
    \/ \E p \in Polls : PollFetched(p)
    \/ \E p \in Polls : PollFetchFailed(p)
    \/ \E p \in Polls : PollLoop(p)
    \/ \E p \in Polls : PollClassified(p)
    \/ \E j \in 1..MaxTweetJobs : TweetPipelineSettles(j)
    \/ \E j \in 1..MaxTweetJobs : TweetFinally(j)

HandleNext ==
    \/ \E s \in Sources, m \in MessageIds : handleMention(s, m)
    \/ \E j \in 1..MaxDeliveries : PipelineSettles(j)
    \/ \E j \in 1..MaxDeliveries : Finally(j)

Next ==
    \/ Start
    \/ \E o \in {"ok", "quota", "error"} : CreateConvexProject(o)
    \/ TimerFires
    \/ \E msg \in AssistantMsgs : Len(msgs) < MaxMsgs /\ OnAssistant(msg)
    \/ \E msg \in ResultMsgs : Len(msgs) < MaxMsgs /\ OnResult(msg)
    \/ StreamThrows
    \/ StreamEnds
    \/ \E o \in {"ok", "quota", "error"} : ConfigureConvexAuthKeys(o)
    \/ \E o \in {"ok", "quota", "error"} : DeployConvexBackend(o)
    \/ SelectGenerator
    \/ InjectVibedBadge
    \/ \E ok \in BOOLEAN : DeployToVercel(ok)
    \/ \E ok \in BOOLEAN : GhCreateRepo(ok)
    \/ \E ok \in BOOLEAN : GhUploadFile(ok)
    \/ \E st \in {"READY", "ERROR", "CANCELED", "BUILDING", "request_failed"} : RwPoll(st)
    \/ \E slow \in BOOLEAN : RwWake(slow)
    \/ PromiseAllResolved
    \/ PromiseAllRejected
    \/ \E ok \in BOOLEAN : TakeScreenshot(ok)
    \/ \E o \in {"url", "null", "fail"} : PublishToClonkSite(o)
    \/ \E ok \in BOOLEAN : Reply(ok)
    \/ \E ok \in BOOLEAN : Apologize(ok)

Spec       == Init /\ [][Next]_vars

\* A query() that keeps to options.maxTurns: turns with tool calls until the
\* agent finishes or the budget is used up, then one result message, then
\* the end of the stream.
ToolTurn  == [type |-> "assistant", hasToolUse |-> TRUE, matches |-> FALSE, subtype |-> "none", structured |-> FALSE]
NoResult  == result = "null" /\ lastError = "null"
SdkTurn   == NoResult /\ turnCount < maxTurns(generating) /\ OnAssistant(ToolTurn)
SdkResult == NoResult /\ \E msg \in ResultMsgs : OnResult(msg)
SdkEnd    == ~NoResult /\ StreamEnds

BudgetNext ==
    \/ Start
    \/ CreateConvexProject("ok")
    \/ SelectGenerator
    \/ TimerFires
    \/ SdkTurn
    \/ SdkResult
    \/ SdkEnd

SpecBudget == Init /\ [][BudgetNext]_vars

DirsNext ==
    \/ \E a \in Builds, variant \in {"static", "threejs", "convex"}, id \in BuildIds :
          GeneratorStarts(a, variant, id)
    \/ \E a \in Builds : GeneratorFails(a)
    \/ \E a \in Builds : GeneratorReturns(a)
    \/ \E a \in Builds : ConvexDeploys(a)

SpecDirs == TrackerInit /\ [][DirsNext]_vars
SpecAdapters == TrackerInit /\ [][AdaptersNext]_vars
SpecTelegram == TrackerInit /\ [][TelegramNext]_vars

\* One call of waitForDeployment; every request settles and every timer fires.
WaitSpecInit == PollInit /\ HandleInit /\ PipeOff /\ MergeOff /\ DirsInit /\ AdaptersInit /\ TgInit /\ WaitInit
SpecWait     == WaitSpecInit /\ [][WaitNext]_vars
FairSpecWait == SpecWait /\ WF_vars(WaitNext)

(***************************************************************************)
(* A job whose progress sink throws: const progress = input.onProgress ||  *)
(* (() => {}) is called between the awaits, inside the outer try.          *)
(***************************************************************************)
\* The exception of progress(...) leaves the try block: the outer catch runs.
\* (Inside the Convex try the inner catch sees it first and rethrows it, its
\* message not being a quota message.)
SinkThrows(events) ==
    /\ pc' = "catch"
    /\ failure' = "ProgressSink"
    /\ stageLog' = stageLog \o events \o <<Ev("Progress", "throw")>>

\* progress('🔧 setting up Convex backend...') throws.
ProgressThrowsAtStart ==
    /\ pc = "start"
    /\ backend = "convex"
    /\ SinkThrows(<<>>)
    /\ UNCHANGED <<inputVars, generatedApp, attempts, ghVars, rwVars, outVars, replies, engVars, trackVars>>

\* createConvexProject resolves and progress('🧠 generating code with Claude...') throws.
ProgressThrowsAfterProvision ==
    /\ pc = "createConvexProject"
    /\ SinkThrows(<<Ev("BackendProvision", "ok")>>)
    /\ UNCHANGED <<inputVars, generatedApp, attempts, ghVars, rwVars, outVars, replies, engVars, trackVars>>

\* generateConvexApp resolves and progress('⚡ deploying Convex backend...') throws.
ProgressThrowsAfterGeneration ==
    /\ pc = "query"
    /\ generating = "convex"
    /\ result = "structured"
    /\ attempts' = Append(attempts,
                     [variant |-> generating, outcome |-> "Success",
                      refusals |-> RefusalRun(msgs) >= MAX_CONSECUTIVE_REFUSALS,
                      errors |-> ErrorRun(msgs) >= MAX_CONSECUTIVE_ERRORS,
                      exhausted |-> turnCount >= maxTurns(generating),
                      result |-> result,
                      aborted |-> aborted])
    /\ EngineReset
    /\ generatedApp' = generating
    /\ SinkThrows(<<Ev("Generation", "ok")>>)
    /\ UNCHANGED <<inputVars, ghVars, rwVars, outVars, replies, trackVars>>

\* progress('🧠 generating 3D app with Claude...') or progress('🧠 generating code with Claude...') throws.
ProgressThrowsBeforeGeneration ==
    /\ pc = "selectGenerator"
    /\ generatedApp = "none"
    /\ template = "threejs" \/ backend = "none"
    /\ SinkThrows(<<>>)
    /\ UNCHANGED <<inputVars, generatedApp, attempts, ghVars, rwVars, outVars, replies, engVars, trackVars>>

\* injectVibedBadge returns and progress('🚀 deploying to Vercel...') throws.
ProgressThrowsBeforeDeploy ==
    /\ pc = "injectVibedBadge"
    /\ generatedApp # "none"
    /\ SinkThrows(<<>>)
    /\ UNCHANGED <<inputVars, generatedApp, attempts, ghVars, rwVars, outVars, replies, engVars, trackVars>>

\* deployToVercel resolves and progress('📦 creating GitHub repo + waiting for deploy...') throws.
ProgressThrowsAfterDeploy ==
    /\ pc = "deployToVercel"
    /\ SinkThrows(<<Ev("HostingDeploy", "ok")>>)
    /\ UNCHANGED <<inputVars, generatedApp, attempts, ghVars, rwVars, outVars, replies, engVars, trackVars>>

\* Promise.all resolves and progress('📸 taking a screenshot...') throws.
ProgressThrowsBeforeScreenshot ==
    /\ pc = "promiseAll"
    /\ gh = "resolved"
    /\ rw = "resolved"
    /\ SinkThrows(<<>>)
    /\ UNCHANGED <<inputVars, generatedApp, attempts, ghVars, rwVars, outVars, replies, engVars, trackVars>>

\* takeScreenshot settles and progress('🌐 publishing to clonk.ai...') throws.
ProgressThrowsBeforePublish(ok) ==
    /\ pc = "takeScreenshot"
    /\ screenshotBuffer' = IF ok THEN "png" ELSE "undefined"
    /\ SinkThrows(<<Ev("VisualVerification", IF ok THEN "ok" ELSE "fail")>>)
    /\ UNCHANGED <<inputVars, generatedApp, attempts, ghVars, rwVars, clonkPageUrl, replies, engVars, trackVars>>

\* publishToClonkSite settles and progress('✅ almost done! sending your app...') throws.
ProgressThrowsBeforeReply(outcome) ==
    /\ pc = "publishToClonkSite"
    /\ outcome \in {"url", "null", "fail"}
    /\ clonkPageUrl' = IF outcome = "url" THEN "url" ELSE "null"
    /\ SinkThrows(<<Ev("GalleryPublish", outcome)>>)
    /\ UNCHANGED <<inputVars, generatedApp, attempts, ghVars, rwVars, screenshotBuffer, replies, engVars, trackVars>>

ProgressThrows ==
    \/ ProgressThrowsAtStart
    \/ ProgressThrowsAfterProvision
    \/ ProgressThrowsAfterGeneration
    \/ ProgressThrowsBeforeGeneration
    \/ ProgressThrowsBeforeDeploy
    \/ ProgressThrowsAfterDeploy
    \/ ProgressThrowsBeforeScreenshot
    \/ \E ok \in BOOLEAN : ProgressThrowsBeforePublish(ok)
    \/ \E o \in {"url", "null", "fail"} : ProgressThrowsBeforeReply(o)

\* The pipeline with a query() that keeps to its budget and a sink that may
\* throw at any of its calls; a sink that returns is part of every step.
SinkNext ==
    \/ Start
    \/ \E o \in {"ok", "quota", "error"} : CreateConvexProject(o)
    \/ SdkTurn
    \/ SdkResult
    \/ SdkEnd
    \/ \E o \in {"ok", "quota", "error"} : ConfigureConvexAuthKeys(o)
    \/ \E o \in {"ok", "quota", "error"} : DeployConvexBackend(o)
    \/ SelectGenerator
    \/ InjectVibedBadge
    \/ \E ok \in BOOLEAN : DeployToVercel(ok)
    \/ \E ok \in BOOLEAN : GhCreateRepo(ok)
    \/ \E ok \in BOOLEAN : GhUploadFile(ok)
    \/ \E st \in {"READY", "ERROR", "CANCELED", "BUILDING", "request_failed"} : RwPoll(st)
    \/ \E slow \in BOOLEAN : RwWake(slow)
    \/ PromiseAllResolved
    \/ PromiseAllRejected
    \/ \E ok \in BOOLEAN : TakeScreenshot(ok)
    \/ \E o \in {"url", "null", "fail"} : PublishToClonkSite(o)
    \/ \E ok \in BOOLEAN : Reply(ok)
    \/ \E ok \in BOOLEAN : Apologize(ok)
    \/ ProgressThrows

SpecSink == Init /\ [][SinkNext]_vars

MergeNext ==
    \/ Stage
    \/ \E path \in AgentPaths : AgentWrite(path)
    \/ \E title \in Titles, fonts \in FontLists, deps \in DepLists : RunClaudeQueryReturns(title, fonts, deps)
    \/ \E k \in 1..MaxCalls : Merge(k)

MergeSpecInit == PollInit /\ HandleInit /\ PipeOff /\ MergeInit /\ DirsInit /\ AdaptersInit /\ TgInit /\ WaitOff
SpecMerge == MergeSpecInit /\ [][MergeNext]_vars
SpecPoll   == TrackerInit /\ [][PollNext]_vars
SpecHandle == TrackerInit /\ [][HandleNext]_vars

\* The reactions of a settled promise always run (microtask queue).
FairSpecPoll == SpecPoll /\ \A j \in 1..MaxTweetJobs : WF_vars(TweetFinally(j))

(***************************************************************************)
(* C1  Two concurrent deliveries of one message: exactly one pipeline.     *)
(***************************************************************************)
\* C1: no two pipelines for the same tweet id are running at the same time
\* (the second delivery of an id whose pipeline is running starts nothing).
C1_OnePipelinePerKey ==
    \A i, j \in DOMAIN tweetJobs :
        (i # j /\ tweetJobs[i].id = tweetJobs[j].id)
            => ~(tweetJobs[i].st = "running" /\ tweetJobs[j].st = "running")

(***************************************************************************)
(* C2  At-most-once over the whole run.                                    *)
(***************************************************************************)
\* C2 as claimed: over the whole run no key has a pipeline started twice.
C2_AtMostOnceEver ==
    \A i, j \in DOMAIN jobs : i # j => jobs[i].key # jobs[j].key

\* C2 amended: at any moment at most one pipeline per key has been started by
\* handleMention and not yet released, and its key is in the registry; a
\* delivery is rejected exactly when the key is in the registry.
C2_AtMostOneInFlight ==
    /\ \A i, j \in DOMAIN jobs :
         (i # j /\ jobs[i].key = jobs[j].key)
             => (jobs[i].st = "released" \/ jobs[j].st = "released")
    /\ \A j \in DOMAIN jobs :
         jobs[j].st # "released" => jobs[j].key \in processingMessages
    /\ \A d \in DOMAIN deliveries :
         deliveries[d].accepted <=> (\E j \in DOMAIN jobs : jobs[j].by = d)

\* A key was rejected while in flight and accepted again after its release.
C2_Witness ==
    /\ \E d \in DOMAIN deliveries : ~deliveries[d].accepted
    /\ \E i, j \in DOMAIN jobs :
         /\ i # j
         /\ jobs[i].key = jobs[j].key
         /\ jobs[i].st = "released"
         /\ jobs[j].st = "running"

(***************************************************************************)
(* C3  release(key) on every termination.                                  *)
(***************************************************************************)
\* C3: once a started pipeline has settled, resolved or rejected, its finally
\* reaction runs and the tweet id is no longer in processingTweets.
C3_ReleasedOnTermination ==
    \A j \in 1..MaxTweetJobs :
        (j \in DOMAIN tweetJobs /\ tweetJobs[j].st = "settled")
            ~> (/\ j \in DOMAIN tweetJobs
                /\ tweetJobs[j].st = "released"
                /\ tweetJobs[j].id \notin processingTweets)

\* A pipeline that rejected has been released.
C3_Witness ==
    \E j \in DOMAIN tweetJobs :
        /\ tweetJobs[j].st = "released"
        /\ tweetJobs[j].outcome = "rejected"
        /\ tweetJobs[j].id \notin processingTweets

(***************************************************************************)
(* Observations on one run of processMentionToApp                          *)
(***************************************************************************)
Count(stage, ev) == Cardinality({i \in DOMAIN stageLog : stageLog[i] = Ev(stage, ev)})
SuccessReplies   == {i \in DOMAIN replies : replies[i].kind = "success"}
Apologies        == {i \in DOMAIN replies : replies[i].kind = "apology"}
Fatal            == pc \in {"catch", "rejected"}

\* Stages of the orchestrator that follow the generation call.
AfterGeneration ==
    {"BackendSecrets", "BackendFunctions", "HostingDeploy", "SourcePublish",
     "ReadinessWait", "VisualVerification", "GalleryPublish"}
DeploymentStages == {"BackendProvision"} \cup AfterGeneration

(***************************************************************************)
(* C4  Quota at Backend Provision: one downgrade, one generation.          *)
(***************************************************************************)
\* C4: after createConvexProject failed with the quota error the backend is
\* dropped, there is exactly one downgrade, Backend Provision is not started
\* again, and the engine runs exactly once, for a non-backend variant.
C4_OneDowngradeOneRetry ==
    Happened("BackendProvision", "quota") =>
        /\ backend = "none"
        /\ Count("Downgrade", "start") = 1
        /\ Count("BackendProvision", "start") = 1
        /\ Count("Generation", "start") = (IF pc = "selectGenerator" THEN 0 ELSE 1)
        /\ pc = "query" => generating \in {"static", "threejs"} /\ attempts = <<>>
        /\ pc \notin {"selectGenerator", "query"} =>
              Len(attempts) = 1 /\ attempts[1].variant \in {"static", "threejs"}

\* A job that was downgraded at Backend Provision has delivered its reply.
C4_Witness ==
    /\ Happened("BackendProvision", "quota")
    /\ pc = "resolved"
    /\ Len(attempts) = 1
    /\ attempts[1].variant = "static"

C6_ReadyOrFatal ==
    /\ rw = "rejected" <=>
          \E e \in {"ERROR", "CANCELED", "timeout", "request_failed"} : Happened("ReadinessWait", e)
    /\ Happened("ReadinessWait", "timeout") => rwElapsed >= timeoutMs
    /\ rw = "rejected" =>
          /\ pc \in {"promiseAll", "catch", "rejected"}
          /\ SuccessReplies = {}
    /\ SuccessReplies # {} => (rw = "resolved" /\ Happened("ReadinessWait", "READY"))

\* A job whose readiness wait timed out has ended rejected.
C6_Witness ==
    /\ Happened("ReadinessWait", "timeout")
    /\ pc = "rejected"
    /\ failure = "ReadinessWait"

(***************************************************************************)
(* C7  Visual Verification and Gallery Publish are best effort.            *)
(***************************************************************************)
\* C7: a failed screenshot or gallery publish is never the reason a job
\* fails; the gallery publish is started after the screenshot attempt
\* whatever its outcome; once both have settled the success reply is sent,
\* with the hosting URL, the screenshot exactly when it was taken and the
\* gallery link exactly when the gallery returned one.
C7_BestEffortStages ==
    /\ failure \notin {"VisualVerification", "GalleryPublish"}
    /\ (Happened("VisualVerification", "fail") \/ Happened("VisualVerification", "ok")) =>
          Started("GalleryPublish")
    /\ (\E o \in {"url", "null", "fail"} : Happened("GalleryPublish", o)) =>
          (pc = "reply" \/ SuccessReplies # {})
    /\ \A i \in SuccessReplies :
          /\ "vercelUrl" \in replies[i].urls
          /\ replies[i].screenshot <=> Happened("VisualVerification", "ok")
          /\ "clonkPageUrl" \in replies[i].urls <=> Happened("GalleryPublish", "url")

\* Both best-effort stages failed and the success reply was delivered.
C7_Witness ==
    /\ Happened("VisualVerification", "fail")
    /\ Happened("GalleryPublish", "fail")
    /\ pc = "resolved"
    /\ \E i \in SuccessReplies : replies[i].delivered

(***************************************************************************)
(* C8  One best-effort apology per fatal failure.                          *)
(***************************************************************************)
\* C8: a job that ended rejected has made exactly one apology attempt, as its
\* last reply, and is rejected with the failure that reached the catch even
\* when the apology could not be sent; no other job has made any.
C8_ExactlyOneApology ==
    /\ Cardinality(Apologies) <= 1
    /\ pc = "rejected" =>
          /\ Cardinality(Apologies) = 1
          /\ replies[Len(replies)].kind = "apology"
          /\ failure # "none"
    /\ pc # "rejected" => Apologies = {}

\* A job whose apology could not be sent has ended rejected.
C8_Witness ==
    /\ pc = "rejected"
    /\ \E i \in Apologies : ~replies[i].delivered

C10_CountersAreRuns ==
    /\ pc = "query" =>
          /\ consecutiveRefusals = RefusalRun(msgs)
          /\ consecutiveErrors = ErrorRun(msgs)
          /\ (msgs # <<>> /\ msgs[Len(msgs)].type = "assistant") =>
                /\ consecutiveErrors = 0
                /\ ~isRefusal(msgs[Len(msgs)]) => consecutiveRefusals = 0
    /\ \A a \in DOMAIN attempts :
          /\ attempts[a].outcome = "ContentRefused" => attempts[a].refusals
          /\ attempts[a].outcome = "ProviderError" => attempts[a].errors

\* Two refusal turns were followed by a turn with a tool call: the counter is
\* back at zero and the loop is still running.
C10_Witness ==
    /\ pc = "query"
    /\ Len(msgs) = 3
    /\ isRefusal(msgs[1]) /\ isRefusal(msgs[2])
    /\ msgs[3].type = "assistant" /\ msgs[3].hasToolUse
    /\ consecutiveRefusals = 0

(***************************************************************************)
(* C11  Five consecutive error results.                                    *)
(***************************************************************************)
\* C11: every error result adds one to the error counter, and an attempt
\* whose counter reached five ended as ProviderError.
C11_ErrorsAbortAsProviderError ==
    /\ pc = "query" =>
          /\ consecutiveErrors = ErrorRun(msgs)
          /\ consecutiveErrors < MAX_CONSECUTIVE_ERRORS
    /\ \A a \in DOMAIN attempts :
          attempts[a].errors => attempts[a].outcome = "ProviderError"

C13_DeadlineAborts ==
    \A a \in DOMAIN attempts :
        attempts[a].aborted => attempts[a].outcome = "Timeout"

(***************************************************************************)
(* C14  Deployment stages and the generation.                              *)
(***************************************************************************)
Before(e1, e2) == \E i, j \in DOMAIN stageLog : i < j /\ stageLog[i] = e1 /\ stageLog[j] = e2

Merged(k)  == mergedApp[k] # <<>>
ContentsAt(files, path) == {files[i].content : i \in {j \in DOMAIN files : files[j].path = path}}
EntriesAt(files, path)  == Cardinality({j \in DOMAIN files : files[j].path = path})
\* The skeleton's part of the output of the merge that was applied.
Skeleton   == mergedTemplate(rawApp[1], templateName, convexUrl)
SkeletonPaths == templatePaths(rawApp[1], templateName, convexUrl)
\* The files the agent wrote during the generation.
Written    == {p \in AgentPaths : buildDir[p] = AgentContent(p)}

(***************************************************************************)
(* C15  Collision on an unprotected path.                                  *)
(***************************************************************************)
\* C15: a creative file whose path is also a skeleton path and is not
\* protected is in the merged output with the creative content, and the
\* skeleton's content is not.
C15_CreativeWins ==
    \A k \in 1..MaxCalls : Merged(k) =>
        \A i \in DOMAIN rawApp[1].files :
            LET f == rawApp[1].files[i] IN
            (f.path \in SkeletonPaths /\ f.path \notin protectedPaths(templateName)) =>
                ContentsAt(mergedApp[k][1].files, f.path) = {f.content}

C18_OnlyCreativeFiles ==
    rawApp # <<>> =>
        \A i \in DOMAIN rawApp[1].files :
            rawApp[1].files[i].content #
                stagedContent(templateName, convexUrl, rawApp[1].files[i].path)

(***************************************************************************)
(* C19  Static generation with one creative file.                          *)
(***************************************************************************)
OneCreativeStatic == templateName = "react-vite" /\ Cardinality(Written) = 1
TemplateFileContent(path) == ContentsAt(readTemplateFiles(templateName), path)

StaticScenario ==
    /\ ~Started("BackendProvision")
    /\ Len(attempts) = 1
    /\ attempts[1].variant = "static"
    /\ Happened("Generation", "ok")
    /\ Happened("HostingDeploy", "ok")
    /\ Happened("ReadinessWait", "READY")

\* C20 as claimed: in the static scenario the final reply contains the
\* hosting URL and no other URL.
C20_OnlyHostingUrl ==
    StaticScenario => \A i \in SuccessReplies : replies[i].urls = {"vercelUrl"}

\* C20 amended: in the static scenario the final reply contains the hosting
\* URL, the source repository URL, the gallery URL exactly when Gallery
\* Publish returned one, and no other URL.
C20_HostingAndSourceUrls ==
    StaticScenario =>
        \A i \in SuccessReplies :
            replies[i].urls =
                {"vercelUrl", "githubUrl"}
                \cup (IF Happened("GalleryPublish", "url") THEN {"clonkPageUrl"} ELSE {})

\* The static scenario ran to its delivered reply without a gallery URL.
C20_Witness ==
    /\ StaticScenario
    /\ pc = "resolved"
    /\ ~Happened("GalleryPublish", "url")
    /\ \E i \in SuccessReplies : replies[i].delivered /\ replies[i].urls = {"vercelUrl", "githubUrl"}

(***************************************************************************)
(* C21  Failures of the backend stages are fatal.                          *)
(***************************************************************************)
BackendFailed(stage) == Happened(stage, "fail") \/ Happened(stage, "quota")

\* C21: a failure of Backend Provision other than quota-exceeded, and any
\* failure of Backend Secret Configuration or Backend Function Deploy, makes
\* the job fatal: Hosting Deploy is never started and the job is not
\* downgraded.
C21_BackendFailuresFatal ==
    /\ Happened("BackendProvision", "fail") =>
          Fatal /\ ~Started("HostingDeploy") /\ ~Started("Downgrade")
    /\ \A stage \in {"BackendSecrets", "BackendFunctions"} :
          BackendFailed(stage) =>
              Fatal /\ ~Started("HostingDeploy") /\ ~Started("Downgrade")

(***************************************************************************)
(* C29  Which artifacts Hosting Deploy uploads.                            *)
(***************************************************************************)
\* C29: Hosting Deploy uploads the artifacts of a backend-variant generation
\* only if Backend Secret Configuration and Backend Function Deploy both
\* succeeded, and in a downgraded job it uploads the artifacts of a
\* generation against a non-backend variant.
C29_DeployedArtifactsMatchVariant ==
    Started("HostingDeploy") =>
        /\ generatedApp = "convex" =>
              Happened("BackendSecrets", "ok") /\ Happened("BackendFunctions", "ok")
        /\ Started("Downgrade") => generatedApp \in {"static", "threejs"}

(***************************************************************************)
(* C22  Source Publish and Readiness Wait run concurrently.                *)
(***************************************************************************)
\* Position in stageLog of the first occurrence of an event, 0 if none.
FirstAt(e) ==
    IF \E i \in DOMAIN stageLog : stageLog[i] = e
    THEN CHOOSE i \in DOMAIN stageLog :
            stageLog[i] = e /\ \A j \in 1..(i - 1) : stageLog[j] # e
    ELSE 0
\* Positions of the events of a stage that follow its start.
ProgressOf(stage) == {i \in DOMAIN stageLog : stageLog[i].stage = stage /\ stageLog[i].ev # "start"}

\* C22: Source Publish and Readiness Wait start only after Hosting Deploy
\* has returned, they start together, and neither has made any progress
\* when the other starts.
C22_PublishAndWaitConcurrent ==
    /\ (gh # "idle") <=> (rw # "idle")
    /\ Started("SourcePublish") <=> Started("ReadinessWait")
    /\ \A stage \in {"SourcePublish", "ReadinessWait"} :
          Started(stage) => Before(Ev("HostingDeploy", "ok"), Ev(stage, "start"))
    /\ \A i \in ProgressOf("SourcePublish") : FirstAt(Ev("ReadinessWait", "start")) \in 1..(i - 1)
    /\ \A i \in ProgressOf("ReadinessWait") : FirstAt(Ev("SourcePublish", "start")) \in 1..(i - 1)

\* Both calls are in flight and each has got past its first request.
C22_Witness ==
    /\ pc = "promiseAll"
    /\ gh = "uploading"
    /\ rw = "sleeping"

(***************************************************************************)
(* C23  Gallery Publish between Visual Verification and the reply.         *)
(***************************************************************************)
GallerySettled == \E o \in {"url", "null", "fail"} : Happened("GalleryPublish", o)

\* C23: Gallery Publish starts only after the Visual Verification attempt
\* has finished, with a screenshot or with a failure, and it has returned or
\* failed before the reply is sent.
C23_GalleryAfterVerification ==
    /\ Started("GalleryPublish") =>
          \/ Before(Ev("VisualVerification", "ok"), Ev("GalleryPublish", "start"))
          \/ Before(Ev("VisualVerification", "fail"), Ev("GalleryPublish", "start"))
    /\ pc = "takeScreenshot" => ~Started("GalleryPublish")
    /\ (pc = "reply" \/ SuccessReplies # {}) => GallerySettled
    /\ pc = "publishToClonkSite" => SuccessReplies = {}

\* The screenshot failed, the gallery returned a URL, and the reply went out.
C23_Witness ==
    /\ Before(Ev("VisualVerification", "fail"), Ev("GalleryPublish", "start"))
    /\ Before(Ev("GalleryPublish", "start"), Ev("GalleryPublish", "url"))
    /\ \E i \in SuccessReplies : replies[i].delivered /\ "clonkPageUrl" \in replies[i].urls

(***************************************************************************)
(* C24  A failing progress sink.                                           *)
(***************************************************************************)
\* C24: an exception of the progress sink never affects the job: no job
\* reaches the catch because of it and no apology is sent for it, whatever
\* stage event it was thrown on.
C24_SinkErrorsIgnored ==
    /\ failure # "ProgressSink"
    /\ Happened("Progress", "throw") => ~Fatal

(***************************************************************************)
(* C25  What the diagnostics of a failed job contain.                      *)
(***************************************************************************)
\* An error object by what it carries: response is whether it has the
\* `response` property of an axios error, message is what its message text
\* is made of besides literal text.
Err(response, message) == [response |-> response, message |-> message]
\* AxiosError of a request answered with an error status: the message is
\* "Request failed with status code N"; the headers and the body are on the
\* object (err.config.headers, err.response.data).
axiosError == Err(TRUE, {"status"})
\* `throw new Error(`Failed to ...: ${res.status} ${body}`)` of the fetch callers.
fetchError == Err(FALSE, {"status", "body"})
\* An error with a literal message, or a network error without a response.
plainError == Err(FALSE, {})

\* The errors the stage whose failure reached the outer catch can throw.
ThrownBy(stage) ==
    CASE stage \in {"BackendProvision", "BackendSecrets"} -> {fetchError, plainError}
      [] stage = "BackendFunctions" -> {Err(FALSE, {"stderr"})}
      [] stage \in {"HostingDeploy", "SourcePublish", "ReadinessWait", "Reply"} -> {axiosError, plainError}
      [] stage = "ProviderError" -> {Err(FALSE, {"sdkError"})}
      [] OTHER -> {plainError}

\* const safeMessage = err.response ? `${status} ${statusText} - ${config.url}` : err.message
safeMessage(err) == IF err.response THEN {"status", "target"} ELSE err.message
\* console.error(`❌ Pipeline failed: ${safeMessage}`)
logLine(err) == safeMessage(err)
\* `Sorry, I couldn't build that app right now. Please try again later! 🔧`
apologyText == {}
\* throw new Error(safeMessage); the web channel stores err.message as the job's result.
jobResult(err) == safeMessage(err)

\* C25: the log line, the reply and the job result of a failed job are made
\* of a status code and a target identifier only: they hold no
\* authorization material and no body of a transport error.
C25_DiagnosticsAreSafe ==
    Fatal =>
        \A err \in ThrownBy(failure) :
            /\ logLine(err) \subseteq {"status", "target"}
            /\ apologyText \subseteq {"status", "target"}
            /\ jobResult(err) \subseteq {"status", "target"}

(***************************************************************************)
(* C26  Working areas of different attempts.                               *)
(***************************************************************************)
\* The build has drawn its working-area path.
HasDir(a) == builds[a].dir # 0

\* C26: any two attempts have distinct working-area paths, and what an
\* attempt reads from its working area, or deploys from it, was staged by
\* that attempt and is still there.
C26_DistinctWorkingAreas ==
    /\ \A a, b \in Builds : (a # b /\ HasDir(a) /\ HasDir(b)) => builds[a].dir # builds[b].dir
    /\ \A a \in Builds :
          /\ builds[a].pc \in {"kept", "done"} => builds[a].read = a
          /\ (builds[a].pc = "done" /\ builds[a].variant = "convex") => builds[a].deployed = a

(***************************************************************************)
(* C28  Check and insert of the polling loop's registry.                   *)
(***************************************************************************)
\* C28: the test processingTweets.has and the insert are one step: whenever
\* a poll cycle starts a pipeline for a tweet, the tweet is not in the
\* registry in the state the step starts from, so two overlapping cycles
\* never both pass the test for the same tweet.
C28_CheckAndInsertAtomic ==
    [][Len(tweetJobs') > Len(tweetJobs) =>
          tweetJobs'[Len(tweetJobs')].id \notin processingTweets]_vars

(***************************************************************************)
(* C27  A request that classification or moderation rejects.               *)
(***************************************************************************)
RecordsOf(r) == {i \in DOMAIN jobStore : jobStore[i].jobId = r}

\* C27 as claimed: the pipeline is called only after classification and
\* moderation have both returned true, and a request either of them rejected
\* has no job record, no registry key and no pipeline.
C27_RejectedCreatesNoJob ==
    \A r \in Requests :
        /\ reqs[r].pc \in {"running", "settled"} => reqs[r].classified /\ reqs[r].moderated
        /\ reqs[r].pc = "rejected" =>
              /\ RecordsOf(r) = {}
              /\ KeyOf(reqs[r].channel, ToString(r)) \notin processingMessages

(***************************************************************************)
(* C30  No stage outlives its job.                                         *)
(***************************************************************************)
\* The call is still executing: it has been started and has not settled.
InFlight(p) == p \notin {"idle", "resolved", "rejected"}

\* C30: once the job has terminated (its reply or its apology has been
\* attempted and processMentionToApp has settled), neither Source Publish
\* nor Readiness Wait is still executing.
C30_NoStageOutlivesJob ==
    pc \in Terminal => ~InFlight(gh) /\ ~InFlight(rw)

(***************************************************************************)
(* C31  Distinct inbound messages have distinct registry keys.             *)
(***************************************************************************)
\* The inbound message an update carries.
TgMessage(u) == <<tg[u].chat, tg[u].message_id>>
\* onMention has been called for the update: handleMention computed its key.
TgKeyed(u) == tg[u].pc \in {"running", "dropped", "replied", "settled"}

\* C31 as claimed: two updates that carry different Telegram messages (in
\* particular the same message number in two chats) have different keys, and
\* an update is dropped as a duplicate only if another update that reached
\* the registry carried the same message.
C31_DistinctMessagesDistinctKeys ==
    \A u \in Updates, v \in Updates :
        /\ TgKeyed(u) /\ TgKeyed(v) /\ TgMessage(u) # TgMessage(v) => TgKey(u) # TgKey(v)
        /\ tg[u].pc = "dropped" =>
              \E w \in Updates \ {u} : TgKeyed(w) /\ TgMessage(w) = TgMessage(u)

(***************************************************************************)
(* C39  The typing timer of a Telegram build request.                      *)
(***************************************************************************)
\* handleBuildRequest has returned and no pipeline of the update is running.
TgHandled(u) == tg[u].pc \in {"skipped", "dropped", "settled"}

\* C39 as claimed: once the handling of an update has ended, its
\* typingInterval is cleared, also when handleMention dropped the update and
\* when the pipeline failed.
C39_TypingTimerCleared ==
    \A u \in Updates : TgHandled(u) => ~tg[u].typingInterval

(***************************************************************************)
(* C32  The status of a web job as a poller sees it.                       *)
(***************************************************************************)
\* GET /api/job?id=... returns what the last POST of the job stored; the
\* POSTs are taken to arrive in the order persistJob sent them.
Terminals == {"done", "error"}
WebJob(r) == reqs[r].channel = "web" /\ reqs[r].classified /\ reqs[r].moderated

\* C32 as claimed: a web job shows 'done' only if the pipeline delivered its
\* success reply, a terminal status once shown never changes, and a settled
\* job shows 'done' after a success and 'error' after a failure.
C32_OneTerminalStatus ==
    \A r \in Requests : WebJob(r) =>
        /\ \A i \in RecordsOf(r) : jobStore[i].status = "done" => reqs[r].replied = "success"
        /\ \A i \in RecordsOf(r), j \in RecordsOf(r) :
              i < j /\ jobStore[i].status \in Terminals => jobStore[j].status = jobStore[i].status
        /\ reqs[r].pc = "settled" =>
              \E i \in RecordsOf(r) :
                 /\ \A j \in RecordsOf(r) : j <= i
                 /\ jobStore[i].status = IF reqs[r].replied = "success" THEN "done" ELSE "error"

(***************************************************************************)
(* C33  Stages start in the order of the deployment DAG.                   *)
(***************************************************************************)
BackendStages == {"BackendProvision", "BackendSecrets", "BackendFunctions"}

\* The stage had ended, with whatever outcome, before event e was logged.
EndedBefore(stage, e) ==
    \E i, j \in DOMAIN stageLog :
        i < j /\ stageLog[i].stage = stage /\ stageLog[i].ev # "start" /\ stageLog[j] = e

\* generateConvexApp has been called: stageTemplateToBuildDir writes
\* VITE_CONVEX_URL into .env.local of the frontend.
EndpointInjected == generating = "convex" \/ \E a \in DOMAIN attempts : attempts[a].variant = "convex"

\* C33: the backend endpoint is injected only after Backend Provision
\* succeeded; every backend stage the job started has ended, and none starts
\* later, when Hosting Deploy starts; Readiness Wait starts after Hosting
\* Deploy succeeded; Visual Verification starts after Readiness Wait
\* returned Ready.
C33_StagesInDagOrder ==
    /\ EndpointInjected => Before(Ev("BackendProvision", "ok"), Ev("Generation", "start"))
    /\ \A st \in BackendStages :
          Started("HostingDeploy") /\ Started(st) =>
              /\ EndedBefore(st, Ev("HostingDeploy", "start"))
              /\ ~Before(Ev("HostingDeploy", "start"), Ev(st, "start"))
    /\ Started("ReadinessWait") => Before(Ev("HostingDeploy", "ok"), Ev("ReadinessWait", "start"))
    /\ Started("VisualVerification") => Before(Ev("ReadinessWait", "READY"), Ev("VisualVerification", "start"))

\* A backend job whose three backend stages succeeded has reached the screenshot.
C33_Witness ==
    /\ Happened("BackendFunctions", "ok")
    /\ EndpointInjected
    /\ pc = "takeScreenshot"

(***************************************************************************)
(* C34  Readiness Wait terminates.                                         *)
(***************************************************************************)
WaitSettled == wait.pc \in {"resolved", "rejected"}

GeneratorsCalled ==
    {attempts[a].variant : a \in DOMAIN attempts} \cup (IF generating = "none" THEN {} ELSE {generating})

\* C35 as claimed: a job whose input has template 'threejs' (the adapters
\* set it whenever a 3D keyword matches, whether or not a backend keyword
\* matches too) never starts Backend Provision and is generated by
\* generateThreeJsApp only.
C35_ThreeJsWins ==
    template = "threejs" =>
        /\ ~Started("BackendProvision")
        /\ GeneratorsCalled \subseteq {"threejs"}

(***************************************************************************)
(* C36  A fatal failure ends in a rejection.                               *)
(***************************************************************************)
\* throw new Error(safeMessage): what the caller's .catch receives.
rethrown(err) == Err(FALSE, safeMessage(err))

\* An error reached the outer catch; the pipeline has settled only as
\* rejected, and only after input.reply was called with the apology,
\* delivered or not.
RejectsAfterApology ==
    /\ failure # "none" => pc \in {"catch", "rejected"}
    /\ pc = "rejected" => failure # "none" /\ Apologies # {}
    /\ pc = "resolved" => failure = "none" /\ Apologies = {}

\* C36 as claimed: every fatal failure ends, after the attempt of the
\* apology and whether or not it was delivered, in a rejection, never in a
\* normal return, and the error the caller receives is sanitized: made of a
\* status code and a target identifier only.
C36_RejectsWithSanitizedError ==
    /\ RejectsAfterApology
    /\ pc = "rejected" =>
          \A err \in ThrownBy(failure) : rethrown(err).message \subseteq {"status", "target"}

(***************************************************************************)
(* C37  Success reply and apology exclude each other.                      *)
(***************************************************************************)
DeliveredSuccess == {i \in SuccessReplies : replies[i].delivered}

\* C37: a job whose success reply was delivered has no apology, attempted or
\* delivered; an apology is attempted only in a job without a delivered
\* success reply, also when the call that failed is the success reply.
C37_SuccessXorApology ==
    /\ DeliveredSuccess = {} \/ Apologies = {}
    /\ Cardinality(SuccessReplies) <= 1
    /\ \A i \in Apologies : \A j \in SuccessReplies : j < i /\ ~replies[j].delivered

\* Every stage succeeded, the success reply threw, the apology was attempted.
C37_Witness ==
    /\ failure = "Reply"
    /\ \E j \in SuccessReplies : ~replies[j].delivered
    /\ Apologies # {}
    /\ pc = "rejected"

(***************************************************************************)
(* C38  Working areas are deleted.                                         *)
(***************************************************************************)
\* The last use of the working area by its job is over: the generator threw,
\* or it returned and, for the backend variant, deployConvexBackend has run
\* in it. Nothing the job does afterwards touches the directory.
AttemptOver(a) == builds[a].pc \in {"failed", "done"}

\* C38 as claimed: once the attempt is over, succeeded or failed and
\* whichever generator made it, the working area it staged is gone.
C38_WorkingAreasDeleted ==
    \A a \in Builds : AttemptOver(a) => tmp[builds[a].dir] # a

====
